---- MODULE Spec2Model ----
(***************************************************************************)
(* CycleTracker: the ride-session lifecycle of the two controllers of the  *)
(* repository, trackingService (src/api/tracking.js) and TrackingProvider  *)
(* (contexts/TrackingContext), with the stores they write to.              *)
(*                                                                         *)
(* Units.  Latitudes are grid steps of 50 m along one meridian, so that a  *)
(* distance is a whole number of 50 m steps and the 0.1 km GPS-jump limit  *)
(* is 2 steps.  Time is counted in ticks of 500 ms.  Speeds are whole m/s  *)
(* on input and tenths of km/h once converted (x 3.6 = x 36 tenths).       *)
(*                                                                         *)
(* An async function is a sequence of steps, one per await: a step runs    *)
(* the code from one await to the next atomically, as the JS event loop    *)
(* does, and the outcome of the awaited call is chosen when it resolves.   *)
(***************************************************************************)
EXTENDS Integers, Sequences, FiniteSets, TLC

\* ------------------------------------------------------------ bounds
MaxRoute == 3
MaxTime == 2
MaxSessions == 2
MaxInflight == 1
MaxLong == 11
MaxRides == 2
MaxHookRoute == 3
MaxLeaked == 2
MaxJump == 4
MaxSubscriptions == 3
MaxPending == 2

\* ------------------------------------------------- program constants
JumpLimit == 2
CheckpointEvery == 10
Infinity == 1000000
KmhPerMps == 36
AvgScale == 3600
TicksPerSec == 2
NoTime == -1
NoId == 0
NoWeight == 0
DefaultWeight == 70
CalorieScale == 144000
PaceFloor == 10
DistScale == 1000
MilePerMille == 621

User == "u1"
OtherUser == "u2"

\* a maximum that forgets what it has seen
Latest(a, b) == b

Max(a, b) == IF a >= b THEN a ELSE b
Min(a, b) == IF a <= b THEN a ELSE b

\* A location fix as the platform reports it (coords + timestamp), already
\* in the shape both controllers store: speed || 0, altitude || 0.
Fix(lat, spd, ts) ==
  [latitude |-> lat, longitude |-> 1, timestamp |-> ts, speed |-> spd, altitude |-> 0]

\* The rider moves north one step (50 m) per tick at a reported 2 m/s: the fix
\* of tick ts.
Fixes(ts) == {Fix(ts + 1, 2, ts)}

\* A ride whose segments grow by one step each: 50 m, then 100 m (exactly the
\* jump limit), then 150 m, ...
JumpFixes(ts) == {Fix(1 + (ts * (ts + 1)) \div 2, 2, ts)}

\* On the long ride the rider rolls at 2 m/s within the first grid cell, and
\* every fourth fix is a GPS jump: 150 m off, with no speed reported.
LongFixes(ts) == {IF ts % 4 = 3 THEN Fix(4, 0, ts) ELSE Fix(1, 2, ts)}

\* The platform hands over either a fresh fix or one it had cached, whose
\* timestamp is two ticks older than the clock.
CachedFixes(ts) == {Fix(ts + 1, 2, ts), Fix(ts + 1, 2, ts - 2)}

RECURSIVE Isqrt(_, _)
Isqrt(n, r) == IF (r + 1) * (r + 1) > n THEN r ELSE Isqrt(n, r + 1)

\* Haversine on the grid: along a meridian the great-circle distance is
\* R * |dLat|, i.e. the number of steps; off the meridian the small-angle
\* (planar) value, rounded down.
Haversine(lat1, lon1, lat2, lon2) ==
  Isqrt((lat2 - lat1) * (lat2 - lat1) + (lon2 - lon1) * (lon2 - lon1), 0)

\* a distance calculator without the guard on its inputs
calculateDistanceUnguarded(lat1, lon1, lat2, lon2) == Haversine(lat1, lon1, lat2, lon2)

\* TrackingProvider.calculateDistance
calculateDistance(lat1, lon1, lat2, lon2) ==
  IF lat1 = 0 \/ lon1 = 0 \/ lat2 = 0 \/ lon2 = 0 THEN 0
  ELSE Haversine(lat1, lon1, lat2, lon2)

\* calculateDistance of utils/formatters, which trackingService imports
formattersDistance(lat1, lon1, lat2, lon2) ==
  IF lat1 = 0 \/ lon1 = 0 \/ lat2 = 0 \/ lon2 = 0 THEN 0
  ELSE Haversine(lat1, lon1, lat2, lon2)

\* (t - startTime) with a null startTime coerced to 0, as JS does
Since(start, t) == t - (IF start = NoTime THEN 0 ELSE start)

\* Date.prototype.toString keeps whole seconds; new Date(string) reads them back
DateToString(t) == IF t = NoTime THEN NoTime ELSE t - (t % TicksPerSec)

\* useStats.calculateDistance (40-55) under a preferred unit: kilometres, or
\* miles at 0.621 to the kilometre; in thousandths of the grid unit
DistanceIn(unit, lat1, lon1, lat2, lon2) ==
  IF lat1 = 0 \/ lon1 = 0 \/ lat2 = 0 \/ lon2 = 0 THEN 0
  ELSE IF unit = "mi" THEN Haversine(lat1, lon1, lat2, lon2) * MilePerMille
  ELSE Haversine(lat1, lon1, lat2, lon2) * DistScale

\* useStats.formatSpeed (61-66) under a preferred unit: m/s to km/h or mph, in tenths
SpeedIn(unit, speedMs) ==
  IF unit = "mi" THEN (speedMs * KmhPerMps * MilePerMille) \div DistScale
  ELSE speedMs * KmhPerMps

VARIABLES
  ctl,            \* which controller the UI drives: "service" or "provider"
  now,            \* wall clock, in ticks
  ops,            \* the async calls in progress, per caller
  ret,            \* what the call that has just returned returned
  users,          \* Firestore users/{uid}: rides, totalDistance, totalTime
  otherAccount,   \* Firestore users/{uid} of another account
  startPoint,     \* ghost: the sample the latest startTracking fetched
  nextId,         \* document ids generated so far
  \* trackingService
  trackingData,   \* trackingService.trackingData
  storage,        \* AsyncStorage: current_tracking_id, tracking_start_time, location_history
  sessions,       \* Firestore tracking_sessions
  taskRunning,    \* the 'tracking-task' location updates are started
  inflight,       \* fixes the task has produced and not yet handed to updateTracking
  remote,         \* the same user's other device, completing a ride of its own
  credited,       \* ghost: the completions whose transaction committed
  crashed,        \* the app has been killed and restarted
  \* TrackingProvider
  isTracking, route, stats,
  locationSubscription, activityDocRef, startTimeRef, lastLocationRef,
  rides,          \* Firestore activities/{uid}/rides
  leaked,         \* live subscriptions no handle refers to
  closure,        \* the stats and route the last render's closures hold, when the
                  \* state has moved on since that render
  \* useStats
  hookRoute,      \* the route option of the hook
  hookDuration,   \* the duration option, in seconds
  hookStats,      \* the hook's stats state
  effectPending,  \* the effect on [route, duration, unit] has yet to run
  userWeight,     \* user.settings.weight, in kg
  preferredUnit,  \* user.settings.distanceUnit || unit: "km" or "mi"
  ranOn,          \* ghost: the inputs the effect last ran on
  distanceCall,   \* what the last direct call of calculateDistance was given and returned
  calories,       \* what the last direct call of calculateCalories was given and returned
  \* useLocation
  useLocation     \* the hook's props, state, subscription handle and pending calls

envVars == <<ctl, now, ops, ret, users, otherAccount, startPoint, nextId>>
svcVars == <<trackingData, storage, sessions, taskRunning, inflight, remote, credited, crashed>>
provVars == <<isTracking, route, stats, locationSubscription, activityDocRef,
              startTimeRef, lastLocationRef, rides, leaked, closure>>
hookVars == <<hookRoute, hookDuration, hookStats, effectPending, userWeight, preferredUnit,
              ranOn, distanceCall, calories>>
vars == <<envVars, svcVars, provVars, hookVars, useLocation>>

\* ------------------------------------------------------ useStats
\* the hook's state before its first effect has run (useStats.js 27-37)
HookInitialStats ==
  [distance |-> 0, averageSpeed |-> 0, maxSpeed |-> 0, minSpeed |-> Infinity,
   elevationGain |-> 0, caloriesBurned |-> 0,
   speedData |-> <<>>, altitudeData |-> <<>>, pacesData |-> <<>>]

\* calculateDistance and formatSpeed as the hook's closures see them
useStatsDistance(lat1, lon1, lat2, lon2) == DistanceIn(preferredUnit, lat1, lon1, lat2, lon2)

formatSpeed(speedMs) == SpeedIn(preferredUnit, speedMs)

\* a bracket table that puts a boundary speed in the bracket below it
metValueInclusive(averageSpeedKmh) ==
  IF averageSpeedKmh <= 160 THEN 40
  ELSE IF averageSpeedKmh <= 200 THEN 68
  ELSE IF averageSpeedKmh <= 250 THEN 80
  ELSE 100

\* the MET bracket of calculateCalories (76-84), in tenths, for a speed in
\* tenths of km/h
metValue(averageSpeedKmh) ==
  IF averageSpeedKmh < 160 THEN 40
  ELSE IF averageSpeedKmh < 200 THEN 68
  ELSE IF averageSpeedKmh < 250 THEN 80
  ELSE 100

\* Math.round of a non-negative quotient
Round(num, den) == (2 * num + den) \div (2 * den)

\* calculateCalories (69-92): MET x 3.5 x weight x hours / 200 x 100, rounded,
\* i.e. MET (in tenths) x 7 x weight x seconds / 144000; the weight is the
\* profile's, or 70
calculateCalories(durationSec, distanceKm, averageSpeedKmh) ==
  LET weight == IF userWeight = NoWeight THEN DefaultWeight ELSE userWeight
  IN Round(metValue(averageSpeedKmh) * 7 * weight * durationSec, CalorieScale)

\* an elevation figure that descents reduce: the net climb from point i - 1 on
calculateElevationGainNet(routeData, i) ==
  IF i > Len(routeData) THEN 0
  ELSE routeData[Len(routeData)].altitude - routeData[i - 1].altitude

RECURSIVE calculateElevationGain(_, _)
\* calculateElevationGain (95-111): the positive altitude changes from point i on
calculateElevationGain(routeData, i) ==
  IF i > Len(routeData) THEN 0
  ELSE (IF routeData[i].altitude > routeData[i - 1].altitude
        THEN routeData[i].altitude - routeData[i - 1].altitude ELSE 0)
       + calculateElevationGain(routeData, i + 1)

\* the result the hook sets for fewer than two points, with a sentinel left in
HookZeroStatsKeepsSentinel == HookInitialStats

\* the result the hook sets for fewer than two points (134-144)
HookZeroStats ==
  [distance |-> 0, averageSpeed |-> 0, maxSpeed |-> 0, minSpeed |-> 0,
   elevationGain |-> 0, caloriesBurned |-> 0,
   speedData |-> <<>>, altitudeData |-> <<>>, pacesData |-> <<>>]

RECURSIVE ProcessLoop(_, _, _, _)
\* the loop of processRouteData over consecutive points (159-208): a segment
\* over the jump limit is skipped, its point's speed and altitude with it
ProcessLoop(unit, routeData, i, acc) ==
  IF i > Len(routeData) THEN acc
  ELSE LET prevPoint == routeData[i - 1]
           currentPoint == routeData[i]
           segmentDistance == DistanceIn(unit, prevPoint.latitude, prevPoint.longitude,
                                         currentPoint.latitude, currentPoint.longitude)
           speed == SpeedIn(unit, currentPoint.speed)
           counted == [acc EXCEPT !.totalDistance = @ + segmentDistance]
           sped == IF speed > 0
                   THEN [counted EXCEPT
                           !.maxSpeed = Max(@, speed), !.minSpeed = Min(@, speed),
                           !.speedSum = @ + speed, !.speedCount = @ + 1,
                           !.speedData = Append(@, [timestamp |-> currentPoint.timestamp,
                                                    speed |-> speed]),
                           !.pacesData = IF speed > PaceFloor
                                         THEN Append(@, [timestamp |-> currentPoint.timestamp])
                                         ELSE @]
                   ELSE counted
           done == IF currentPoint.altitude # 0
                   THEN [sped EXCEPT
                           !.altitudeData = Append(@, [timestamp |-> currentPoint.timestamp,
                                                       altitude |-> currentPoint.altitude])]
                   ELSE sped
       IN ProcessLoop(unit, routeData, i + 1,
                      IF segmentDistance > JumpLimit * DistScale
                      THEN [acc EXCEPT !.skipped = @ \cup {i}] ELSE done)

\* the loop's accumulators before the first segment (148-157)
LoopStart ==
  [totalDistance |-> 0, maxSpeed |-> 0, minSpeed |-> Infinity,
   speedSum |-> 0, speedCount |-> 0, skipped |-> {},
   speedData |-> <<>>, altitudeData |-> <<>>, pacesData |-> <<>>]

\* processRouteData (132-235) under a preferred unit: the figures it sets; the
\* distance in whole grid units, as toFixed cuts it off
ProcessRoute(unit, routeData) ==
  IF Len(routeData) < 2
  THEN HookZeroStats
  ELSE LET acc == ProcessLoop(unit, routeData, 2, LoopStart)
           averageSpeed == IF acc.speedCount > 0 THEN acc.speedSum \div acc.speedCount ELSE 0
       IN [distance |-> acc.totalDistance \div DistScale,
           averageSpeed |-> averageSpeed,
           maxSpeed |-> acc.maxSpeed,
           minSpeed |-> IF acc.minSpeed = Infinity THEN 0 ELSE acc.minSpeed,
           elevationGain |-> calculateElevationGain(routeData, 2),
           caloriesBurned |-> calculateCalories(hookDuration, acc.totalDistance, averageSpeed),
           speedData |-> acc.speedData,
           altitudeData |-> acc.altitudeData,
           pacesData |-> acc.pacesData]

\* a run that adds its distance to the one the state already holds
processRouteDataAccumulating(routeData) ==
  [ProcessRoute(preferredUnit, routeData) EXCEPT !.distance = @ + hookStats.distance]

processRouteData(routeData) == ProcessRoute(preferredUnit, routeData)


NoOp == [kind |-> "none"]
NoRet == [op |-> "none"]
NoFix == [latitude |-> 0]
NoCall == [averageSpeedKmh |-> -1]
NoRun == [again |-> FALSE]
NoClosure == [fresh |-> TRUE]

\* the useLocation hook after its first render with the default options
\* (part_001 20-34): not enabled, no permission yet, no subscription
InitialLocation ==
  [enabled |-> FALSE, hasPermission |-> FALSE, mounted |-> TRUE, isTracking |-> FALSE,
   locationSubscription |-> NoId,   \* locationSubscription.current
   live |-> {},                     \* the subscriptions of the hook not yet removed
   created |-> 0,                   \* subscriptions created so far
   pending |-> <<>>,                \* the async functions of the hook awaiting a result
   wanted |-> FALSE]                \* ghost: the last request was one to track

InitialTrackingData ==
  [isTracking |-> FALSE, startTime |-> NoTime, endTime |-> NoTime, duration |-> 0,
   distance |-> 0, currentSpeed |-> 0, maxSpeed |-> 0, minSpeed |-> Infinity,
   avgSpeed |-> 0, locationHistory |-> <<>>]

EmptyStorage == [current_tracking_id |-> NoId, tracking_start_time |-> NoTime,
                 location_history |-> <<>>, has_history |-> FALSE]

InitialStats ==
  [distance |-> 0, currentSpeed |-> 0, averageSpeed |-> 0, maxSpeed |-> 0,
   duration |-> 0, startTime |-> NoTime, endTime |-> NoTime]

ZeroAggregate == [rides |-> 0, totalDistance |-> 0, totalTime |-> 0]

InitFor(c, callers) ==
  /\ ctl = c
  /\ now = 0
  /\ ops = [x \in callers |-> NoOp]
  /\ ret = NoRet
  /\ users = ZeroAggregate
  /\ otherAccount = ZeroAggregate
  /\ startPoint = NoFix
  /\ nextId = 0
  /\ trackingData = InitialTrackingData
  /\ storage = EmptyStorage
  /\ sessions = {}
  /\ taskRunning = FALSE
  /\ inflight = <<>>
  /\ remote = [pc |-> "idle", snap |-> ZeroAggregate]
  /\ credited = ZeroAggregate
  /\ crashed = FALSE
  /\ isTracking = FALSE
  /\ route = <<>>
  /\ stats = InitialStats
  /\ locationSubscription = FALSE
  /\ activityDocRef = NoId
  /\ startTimeRef = NoTime
  /\ lastLocationRef = NoFix
  /\ rides = {}
  /\ leaked = 0
  /\ closure = NoClosure
  /\ hookRoute = <<>>
  /\ hookDuration = 0
  /\ hookStats = HookInitialStats
  /\ effectPending = TRUE
  /\ userWeight = NoWeight
  /\ preferredUnit = "km"
  /\ ranOn = NoRun
  /\ distanceCall = NoFix
  /\ calories = NoCall
  /\ useLocation = InitialLocation

\* One caller at a time: the UI awaits each call before it makes the next.
Init == \E c \in {"service", "provider"} : InitFor(c, {"ui"})

Idle(c) == ops[c].kind = "none"
Others(c) == \E d \in DOMAIN ops \ {c} : ~Idle(d)

\* ------------------------------------------------------ call bookkeeping
\* A call by c starts: every call already in progress now has company.
Call(c, rec) ==
  ops' = [d \in DOMAIN ops |->
            IF d = c THEN [rec EXCEPT !.solo = ~Others(c)]
            ELSE IF Idle(d) THEN NoOp ELSE [ops[d] EXCEPT !.solo = FALSE]]

Goto(c, rec) == ops' = [ops EXCEPT ![c] = rec] /\ ret' = NoRet

Return(c, r) == ops' = [ops EXCEPT ![c] = NoOp] /\ ret' = r

PendingStarts == Cardinality({d \in DOMAIN ops : ops[d].kind = "start" /\ ops[d].id = NoId})

\* ------------------------------------------------------ trackingService
SvcActive == trackingData.isTracking
SvcPaused ==
  /\ ~trackingData.isTracking
  /\ trackingData.startTime # NoTime
  /\ trackingData.endTime = NoTime

\* a session that startTracking has set up completely and stopTracking has not ended
SvcSession ==
  /\ storage.current_tracking_id # NoId /\ storage.tracking_start_time # NoTime
  /\ trackingData.startTime # NoTime /\ trackingData.endTime = NoTime

Stale(q) == [i \in 1..Len(q) |-> [q[i] EXCEPT !.stale = TRUE]]

ResetTrackingData(t) == [InitialTrackingData EXCEPT !.isTracking = TRUE, !.startTime = t]

svcFrame == UNCHANGED <<ctl, now, otherAccount, startPoint, provVars, remote, crashed, hookVars, useLocation>>

\* startTracking, up to the permission request (tracking.js 28-31)
SvcStartTracking(c) ==
  /\ ctl = "service" /\ Idle(c)
  /\ nextId + PendingStarts < MaxSessions
  /\ Call(c, [kind |-> "start", pc |-> "perm", solo |-> TRUE, id |-> NoId,
              val |-> NoTime, busy |-> SvcActive \/ SvcPaused, session |-> SvcSession])
  /\ ret' = NoRet
  /\ UNCHANGED <<users, nextId, trackingData, storage, sessions, taskRunning,
                 inflight, credited>>
  /\ svcFrame

\* the permission answer; startLocationUpdatesAsync is requested (32-46)
SvcStartPerm(c) ==
  /\ ctl = "service" /\ ops[c].kind = "start" /\ ops[c].pc = "perm"
  /\ \E granted \in BOOLEAN :
       IF granted
       THEN Goto(c, [ops[c] EXCEPT !.pc = "task"])
       ELSE Return(c, [op |-> "start", ok |-> FALSE, solo |-> ops[c].solo,
                       busy |-> ops[c].busy, session |-> ops[c].session, id |-> NoId])
  /\ UNCHANGED <<users, nextId, trackingData, storage, sessions, taskRunning,
                 inflight, credited>>
  /\ svcFrame

\* the task is started; trackingData is reset; the first fix is requested (37-68)
SvcStartTask(c) ==
  /\ ctl = "service" /\ ops[c].kind = "start" /\ ops[c].pc = "task"
  /\ \E ok \in BOOLEAN :
       IF ok
       THEN /\ taskRunning' = TRUE
            /\ trackingData' = ResetTrackingData(now)
            /\ Goto(c, [ops[c] EXCEPT !.pc = "fix"])
       ELSE /\ Return(c, [op |-> "start", ok |-> FALSE, solo |-> ops[c].solo,
                          busy |-> ops[c].busy, session |-> ops[c].session, id |-> NoId])
            /\ UNCHANGED <<taskRunning, trackingData>>
  /\ UNCHANGED <<users, nextId, storage, sessions, inflight, credited>>
  /\ svcFrame

\* the first fix is pushed, the session id generated, its caching requested (66-81)
SvcStartFix(c) ==
  /\ ctl = "service" /\ ops[c].kind = "start" /\ ops[c].pc = "fix"
  /\ \E ok \in BOOLEAN :
       IF ok
       THEN \E loc \in Fixes(now) :
              /\ trackingData' = [trackingData EXCEPT !.locationHistory = Append(@, loc)]
              /\ startPoint' = loc
              /\ nextId' = nextId + 1
              /\ Goto(c, [ops[c] EXCEPT !.pc = "putId", !.id = nextId + 1])
       ELSE /\ Return(c, [op |-> "start", ok |-> FALSE, solo |-> ops[c].solo,
                          busy |-> ops[c].busy, session |-> ops[c].session, id |-> NoId])
            /\ UNCHANGED <<trackingData, startPoint, nextId>>
  /\ UNCHANGED <<users, storage, sessions, taskRunning, inflight, credited>>
  /\ UNCHANGED <<ctl, now, otherAccount, provVars, remote, crashed, hookVars, useLocation>>

\* current_tracking_id is stored; the start time's string is made (81-82)
SvcStartPutId(c) ==
  /\ ctl = "service" /\ ops[c].kind = "start" /\ ops[c].pc = "putId"
  /\ storage' = [storage EXCEPT !.current_tracking_id = ops[c].id]
  /\ Goto(c, [ops[c] EXCEPT !.pc = "putStart",
                            !.val = DateToString(trackingData.startTime)])
  /\ UNCHANGED <<users, nextId, trackingData, sessions, taskRunning, inflight, credited>>
  /\ svcFrame

\* tracking_start_time is stored; startTracking returns the id (82-84)
SvcStartPutStart(c) ==
  /\ ctl = "service" /\ ops[c].kind = "start" /\ ops[c].pc = "putStart"
  /\ storage' = [storage EXCEPT !.tracking_start_time = ops[c].val]
  /\ Return(c, [op |-> "start", ok |-> TRUE, solo |-> ops[c].solo,
                busy |-> ops[c].busy, session |-> ops[c].session, id |-> ops[c].id])
  /\ UNCHANGED <<users, nextId, trackingData, sessions, taskRunning, inflight, credited>>
  /\ svcFrame

\* updateTracking (92-144), its effect on trackingData
\* a handler that puts the new sample in front of the route
updateTrackingPrepending(td, location) ==
  [td EXCEPT !.locationHistory = <<location>> \o @]

updateTracking(td, location) ==
  LET hist == Append(td.locationHistory, location)
      n == Len(hist)
      distDelta == IF n > 1
                   THEN formattersDistance(hist[n - 1].latitude, hist[n - 1].longitude,
                                           location.latitude, location.longitude)
                   ELSE 0
      distance == td.distance + distDelta
      currentSpeed == location.speed * KmhPerMps
      elapsed == Since(td.startTime, location.timestamp)
  IN [td EXCEPT
        !.locationHistory = hist,
        !.distance = distance,
        !.currentSpeed = currentSpeed,
        !.maxSpeed = IF currentSpeed > 0 THEN Max(@, currentSpeed) ELSE @,
        !.minSpeed = IF currentSpeed > 0 THEN Min(@, currentSpeed) ELSE @,
        !.avgSpeed = IF elapsed > 0 THEN (AvgScale * distance) \div elapsed ELSE 0,
        !.duration = elapsed]

\* the periodic cache of the route (140-143)
Checkpoint(st, hist) ==
  IF Len(hist) % CheckpointEvery = 0
  THEN [st EXCEPT !.location_history = hist, !.has_history = TRUE]
  ELSE st

\* The running task produces a fix.  The clock is read off the fixes: each is
\* one tick later than whatever happened before it.
Produce(fixes, bound, tmax) ==
  /\ ctl = "service" /\ taskRunning
  /\ now < tmax
  /\ Len(inflight) < MaxInflight
  /\ Len(trackingData.locationHistory) + Len(inflight) < bound
  /\ now' = now + 1
  /\ \E loc \in fixes : inflight' = Append(inflight, [fix |-> loc, stale |-> FALSE, sid |-> nextId])
  /\ ret' = NoRet
  /\ UNCHANGED <<ops, users, nextId, trackingData, storage, sessions, taskRunning, credited>>
  /\ UNCHANGED <<ctl, otherAccount, startPoint, provVars, remote, crashed, hookVars, useLocation>>

SvcEmit == Produce(Fixes(now + 1), MaxRoute, MaxTime)

\* the same on a long ride
LongEmit == Produce(LongFixes(now + 1), MaxLong, MaxLong)

\* the task hands a fix to updateTracking
SvcUpdateTracking ==
  /\ ctl = "service" /\ inflight # <<>>
  /\ inflight' = Tail(inflight)
  /\ IF trackingData.isTracking
     THEN /\ trackingData' = updateTracking(trackingData, Head(inflight).fix)
          /\ storage' = Checkpoint(storage, trackingData'.locationHistory)
     ELSE UNCHANGED <<trackingData, storage>>
  /\ ret' = NoRet
  /\ UNCHANGED <<ops, users, nextId, sessions, taskRunning, credited>>
  /\ svcFrame


\* the record stopTracking writes to tracking_sessions (169-180)
TrackingDataToSave(id, td) ==
  [id |-> id, userId |-> User, status |-> "completed",
   startTime |-> td.startTime, endTime |-> td.endTime,
   duration |-> td.duration, distance |-> td.distance, maxSpeed |-> td.maxSpeed,
   minSpeed |-> td.minSpeed, avgSpeed |-> td.avgSpeed,
   locationHistory |-> td.locationHistory]

\* doc(id).set(data): the document of that id is replaced
SetDoc(coll, data) == {d \in coll : d.id # data.id} \cup {data}

Failed(c, what) == [op |-> what, ok |-> FALSE, solo |-> ops[c].solo, busy |-> ops[c].busy,
                    session |-> ops[c].session, id |-> NoId]

\* what a stopTracking that threw returns, and the step it threw at
StopFailed(c, at) == [op |-> "stop", ok |-> FALSE, solo |-> ops[c].solo, busy |-> ops[c].busy,
                      session |-> ops[c].session, id |-> ops[c].id, at |-> at]

\* stopTracking: the guard; stopLocationUpdatesAsync is requested (147-154)
SvcStopTracking(c) ==
  /\ ctl = "service" /\ Idle(c)
  /\ users.rides < MaxRides
  /\ IF ~trackingData.isTracking
     THEN /\ ret' = [op |-> "stop", ok |-> FALSE, solo |-> ~Others(c), busy |-> FALSE,
                     session |-> SvcSession, id |-> NoId, at |-> "guard"]
          /\ UNCHANGED ops
     ELSE /\ Call(c, [kind |-> "stop", pc |-> "halt", solo |-> TRUE, busy |-> TRUE,
                      session |-> SvcSession,
                      id |-> NoId, data |-> <<>>, snap |-> users, upd |-> users,
                      pre |-> users, tries |-> 0])
          /\ ret' = NoRet
  /\ UNCHANGED <<users, nextId, trackingData, storage, sessions, taskRunning,
                 inflight, credited>>
  /\ svcFrame

\* the task is stopped; end time, isTracking, minSpeed; the id is asked for (154-166)
SvcStopHalt(c) ==
  /\ ctl = "service" /\ ops[c].kind = "stop" /\ ops[c].pc = "halt"
  /\ \E ok \in BOOLEAN :
       IF ok
       THEN /\ taskRunning' = FALSE
            /\ inflight' = Stale(inflight)
            /\ trackingData' = [trackingData EXCEPT
                 !.endTime = now, !.isTracking = FALSE,
                 !.minSpeed = IF @ = Infinity THEN 0 ELSE @]
            /\ Goto(c, [ops[c] EXCEPT !.pc = "getId"])
       ELSE /\ Return(c, StopFailed(c, "halt"))
            /\ UNCHANGED <<taskRunning, inflight, trackingData>>
  /\ UNCHANGED <<users, nextId, storage, sessions, credited>>
  /\ svcFrame

\* the cached id arrives; the record is built and its write requested (166-183)
SvcStopGetId(c) ==
  /\ ctl = "service" /\ ops[c].kind = "stop" /\ ops[c].pc = "getId"
  /\ IF storage.current_tracking_id = NoId
     THEN Return(c, StopFailed(c, "getId"))
     ELSE Goto(c, [ops[c] EXCEPT !.pc = "save", !.id = storage.current_tracking_id,
                     !.data = <<TrackingDataToSave(storage.current_tracking_id, trackingData)>>])
  /\ UNCHANGED <<users, nextId, trackingData, storage, sessions, taskRunning,
                 inflight, credited>>
  /\ svcFrame

\* the record is written; the transaction is started (183-188)
SvcStopSave(c) ==
  /\ ctl = "service" /\ ops[c].kind = "stop" /\ ops[c].pc = "save"
  /\ \E ok \in BOOLEAN :
       IF ok
       THEN /\ sessions' = SetDoc(sessions, ops[c].data[1])
            /\ Goto(c, [ops[c] EXCEPT !.pc = "txnGet"])
       ELSE /\ Return(c, StopFailed(c, "save"))
            /\ UNCHANGED sessions
  /\ UNCHANGED <<users, nextId, trackingData, storage, taskRunning, inflight, credited>>
  /\ svcFrame

\* what the transaction body writes, given the aggregate it has read (193-199)
AddRide(agg, distance, duration) ==
  [rides |-> agg.rides + 1,
   totalDistance |-> agg.totalDistance + distance,
   totalTime |-> agg.totalTime + duration]

\* transaction.get resolves; the body computes the update (188-199)
SvcStopTxnGet(c) ==
  /\ ctl = "service" /\ ops[c].kind = "stop" /\ ops[c].pc = "txnGet"
  /\ \E ok \in BOOLEAN :
       IF ok
       THEN Goto(c, [ops[c] EXCEPT !.pc = "txnCommit", !.snap = users,
                       !.upd = AddRide(users, trackingData.distance, trackingData.duration)])
       ELSE Return(c, StopFailed(c, "txn"))
  /\ UNCHANGED <<users, nextId, trackingData, storage, sessions, taskRunning,
                 inflight, credited>>
  /\ svcFrame

\* a transaction that writes whatever its body computed, stale read or not
CommitsUnchecked(snap, current) == TRUE

\* runTransaction commits if the document it read is unchanged, else runs the
\* body again
Commits(snap, current) == snap = current

Credit(snap, upd) ==
  [rides |-> credited.rides + (upd.rides - snap.rides),
   totalDistance |-> credited.totalDistance + (upd.totalDistance - snap.totalDistance),
   totalTime |-> credited.totalTime + (upd.totalTime - snap.totalTime)]

\* the transaction's commit (187-200); the cached id's removal is requested (203)
SvcStopTxnCommit(c) ==
  /\ ctl = "service" /\ ops[c].kind = "stop" /\ ops[c].pc = "txnCommit"
  /\ IF Commits(ops[c].snap, users)
     THEN /\ users' = ops[c].upd
          /\ credited' = Credit(ops[c].snap, ops[c].upd)
          /\ Goto(c, [ops[c] EXCEPT !.pc = "rm1"])
     ELSE /\ Goto(c, [ops[c] EXCEPT !.pc = "txnGet", !.tries = 1])
          /\ UNCHANGED <<users, credited>>
  /\ UNCHANGED <<nextId, trackingData, storage, sessions, taskRunning, inflight>>
  /\ svcFrame

\* the three removeItem calls (203-205) and the return (207-213)
SvcStopCleanup(c) ==
  /\ ctl = "service" /\ ops[c].kind = "stop" /\ ops[c].pc \in {"rm1", "rm2", "rm3"}
  /\ CASE ops[c].pc = "rm1" ->
            /\ storage' = [storage EXCEPT !.current_tracking_id = NoId]
            /\ Goto(c, [ops[c] EXCEPT !.pc = "rm2"])
       [] ops[c].pc = "rm2" ->
            /\ storage' = [storage EXCEPT !.tracking_start_time = NoTime]
            /\ Goto(c, [ops[c] EXCEPT !.pc = "rm3"])
       [] ops[c].pc = "rm3" ->
            /\ storage' = [storage EXCEPT !.location_history = <<>>, !.has_history = FALSE]
            /\ Return(c, [op |-> "stop", ok |-> TRUE, solo |-> ops[c].solo, busy |-> TRUE,
                          session |-> ops[c].session, id |-> ops[c].id, pre |-> ops[c].pre,
                          tries |-> ops[c].tries, trackingData |-> trackingData])
  /\ UNCHANGED <<users, nextId, trackingData, sessions, taskRunning, inflight, credited>>
  /\ svcFrame

\* pauseTracking: the guard; stopLocationUpdatesAsync is requested (221-228)
SvcPauseTracking(c) ==
  /\ ctl = "service" /\ Idle(c)
  /\ IF ~trackingData.isTracking
     THEN /\ ret' = [op |-> "pause", ok |-> FALSE, solo |-> ~Others(c), busy |-> FALSE,
                     session |-> SvcSession, id |-> NoId]
          /\ UNCHANGED ops
     ELSE /\ Call(c, [kind |-> "pause", pc |-> "halt", solo |-> TRUE, busy |-> TRUE,
                      session |-> SvcSession])
          /\ ret' = NoRet
  /\ UNCHANGED <<users, nextId, trackingData, storage, sessions, taskRunning,
                 inflight, credited>>
  /\ svcFrame

\* the task is stopped; isTracking is cleared (228-232)
SvcPauseHalt(c) ==
  /\ ctl = "service" /\ ops[c].kind = "pause" /\ ops[c].pc = "halt"
  /\ \E ok \in BOOLEAN :
       IF ok
       THEN /\ taskRunning' = FALSE
            /\ inflight' = Stale(inflight)
            /\ trackingData' = [trackingData EXCEPT !.isTracking = FALSE]
            /\ Return(c, [op |-> "pause", ok |-> TRUE, solo |-> ops[c].solo,
                          busy |-> TRUE, session |-> ops[c].session, id |-> NoId])
       ELSE /\ Return(c, Failed(c, "pause"))
            /\ UNCHANGED <<taskRunning, inflight, trackingData>>
  /\ UNCHANGED <<users, nextId, storage, sessions, credited>>
  /\ svcFrame

\* a resume that starts the session over
ResumedFromScratch(td) == ResetTrackingData(td.startTime)

\* what resumeTracking does to trackingData (258)
Resumed(td) == [td EXCEPT !.isTracking = TRUE]

\* resumeTracking: the guard; startLocationUpdatesAsync is requested (240-256)
SvcResumeTracking(c) ==
  /\ ctl = "service" /\ Idle(c)
  /\ IF trackingData.isTracking
     THEN /\ ret' = [op |-> "resume", ok |-> FALSE, solo |-> ~Others(c), busy |-> TRUE,
                     session |-> SvcSession, id |-> NoId]
          /\ UNCHANGED ops
     ELSE /\ Call(c, [kind |-> "resume", pc |-> "task", solo |-> TRUE, busy |-> SvcPaused,
                      session |-> SvcSession])
          /\ ret' = NoRet
  /\ UNCHANGED <<users, nextId, trackingData, storage, sessions, taskRunning,
                 inflight, credited>>
  /\ svcFrame

\* the task is started; isTracking is set (247-260)
SvcResumeTask(c) ==
  /\ ctl = "service" /\ ops[c].kind = "resume" /\ ops[c].pc = "task"
  /\ \E ok \in BOOLEAN :
       IF ok
       THEN /\ taskRunning' = TRUE
            /\ trackingData' = Resumed(trackingData)
            /\ Return(c, [op |-> "resume", ok |-> TRUE, solo |-> ops[c].solo,
                          busy |-> ops[c].busy, session |-> ops[c].session, id |-> NoId])
       ELSE /\ Return(c, Failed(c, "resume"))
            /\ UNCHANGED <<taskRunning, trackingData>>
  /\ UNCHANGED <<users, nextId, storage, sessions, inflight, credited>>
  /\ svcFrame

NoStats == [isTracking |-> FALSE]

\* getCurrentStats (312-327)
getCurrentStats ==
  IF ~trackingData.isTracking /\ trackingData.startTime = NoTime
  THEN NoStats
  ELSE [duration |-> trackingData.duration, distance |-> trackingData.distance,
        currentSpeed |-> trackingData.currentSpeed, maxSpeed |-> trackingData.maxSpeed,
        minSpeed |-> IF trackingData.minSpeed = Infinity THEN 0 ELSE trackingData.minSpeed,
        avgSpeed |-> trackingData.avgSpeed,
        locationHistory |-> trackingData.locationHistory,
        isTracking |-> trackingData.isTracking]

\* The app is killed and started again: the module's state is its initial one,
\* the task and the calls in progress are gone, AsyncStorage and Firestore stay.
Crash ==
  /\ ctl = "service" /\ ~crashed
  /\ storage.current_tracking_id # NoId
  /\ crashed' = TRUE
  /\ trackingData' = InitialTrackingData
  /\ ops' = [c \in DOMAIN ops |-> NoOp]
  /\ taskRunning' = FALSE
  /\ inflight' = <<>>
  /\ ret' = NoRet
  /\ UNCHANGED <<ctl, now, users, otherAccount, startPoint, nextId, storage, sessions, credited, remote,
                 provVars, hookVars, useLocation>>

\* checkForInterruptedTracking (376-399): the three cached items, read on startup
SvcCheckForInterruptedTracking(c) ==
  /\ ctl = "service" /\ Idle(c) /\ crashed
  /\ ret.op # "check"
  /\ ret' = IF storage.current_tracking_id = NoId \/ storage.tracking_start_time = NoTime
            THEN [op |-> "check", interrupted |-> FALSE]
            ELSE [op |-> "check", interrupted |-> TRUE,
                  trackingId |-> storage.current_tracking_id,
                  startTime |-> storage.tracking_start_time,
                  locationHistory |-> storage.location_history]
  /\ UNCHANGED <<ops, users, nextId, trackingData, storage, sessions, taskRunning,
                 inflight, credited>>
  /\ svcFrame

RECURSIVE SumDistances(_, _)
\* the loop of resumeInterruptedTracking over consecutive points (424-439)
SumDistances(hist, i) ==
  IF i > Len(hist) THEN 0
  ELSE formattersDistance(hist[i - 1].latitude, hist[i - 1].longitude,
                          hist[i].latitude, hist[i].longitude)
       + SumDistances(hist, i + 1)

RECURSIVE FoldSpeeds(_, _, _)
\* the loop of resumeInterruptedTracking over the points' speeds (449-457)
FoldSpeeds(td, hist, i) ==
  IF i > Len(hist) THEN td
  ELSE FoldSpeeds(IF hist[i].speed > 0
                  THEN [td EXCEPT !.maxSpeed = Max(@, hist[i].speed * KmhPerMps),
                                  !.minSpeed = Min(@, hist[i].speed * KmhPerMps)]
                  ELSE td,
                  hist, i + 1)

RFailed(c) == [op |-> "recover", ok |-> FALSE, id |-> ops[c].id, snapshot |-> ops[c].snapshot,
               start |-> ops[c].start, pre |-> ops[c].pre]

\* resumeInterruptedTracking, given what the check returned: trackingData is
\* rebuilt, the distance summed, the current position asked for (402-444)
SvcResumeInterruptedTracking(c) ==
  /\ ctl = "service" /\ Idle(c)
  /\ ret.op = "check" /\ ret.interrupted
  /\ trackingData' =
       [ResetTrackingData(ret.startTime) EXCEPT
          !.locationHistory = ret.locationHistory,
          !.distance = IF Len(ret.locationHistory) > 1
                       THEN SumDistances(ret.locationHistory, 2) ELSE 0]
  /\ Call(c, [kind |-> "recover", pc |-> "fix", solo |-> TRUE, id |-> ret.trackingId,
              snapshot |-> ret.locationHistory, start |-> ret.startTime,
              pre |-> sessions])
  /\ ret' = NoRet
  /\ UNCHANGED <<users, nextId, storage, sessions, taskRunning, inflight, credited>>
  /\ svcFrame

\* the position arrives; the speeds are folded; the task is asked for (442-469)
SvcRecoverFix(c) ==
  /\ ctl = "service" /\ ops[c].kind = "recover" /\ ops[c].pc = "fix"
  /\ \E ok \in BOOLEAN :
       IF ok
       THEN /\ trackingData' = FoldSpeeds(trackingData, ops[c].snapshot, 1)
            /\ Goto(c, [ops[c] EXCEPT !.pc = "task"])
       ELSE /\ Return(c, RFailed(c))
            /\ UNCHANGED trackingData
  /\ UNCHANGED <<users, nextId, storage, sessions, taskRunning, inflight, credited>>
  /\ svcFrame

\* the task is started; the recovered id is returned (460-471)
SvcRecoverTask(c) ==
  /\ ctl = "service" /\ ops[c].kind = "recover" /\ ops[c].pc = "task"
  /\ \E ok \in BOOLEAN :
       IF ok
       THEN /\ taskRunning' = TRUE
            /\ Return(c, [RFailed(c) EXCEPT !.ok = TRUE])
       ELSE /\ Return(c, RFailed(c))
            /\ UNCHANGED taskRunning
  /\ UNCHANGED <<users, nextId, trackingData, storage, sessions, inflight, credited>>
  /\ svcFrame

\* The user's other device completes a ride of its own: the same transaction
\* (185-200) against the same users document.
RemoteRide == [distance |-> 1, duration |-> 2]

RemoteTxnGet ==
  /\ ctl = "service" /\ remote.pc = "idle"
  /\ users.rides < MaxRides
  /\ remote' = [pc |-> "commit", snap |-> users]
  /\ ret' = NoRet
  /\ UNCHANGED <<ctl, now, ops, users, nextId, trackingData, storage, sessions,
                 taskRunning, inflight, credited, crashed, otherAccount, startPoint,
                 provVars, hookVars, useLocation>>

RemoteTxnCommit ==
  /\ ctl = "service" /\ remote.pc = "commit"
  /\ LET upd == AddRide(remote.snap, RemoteRide.distance, RemoteRide.duration) IN
       IF Commits(remote.snap, users)
       THEN /\ users' = upd
            /\ credited' = Credit(remote.snap, upd)
            /\ remote' = [remote EXCEPT !.pc = "done"]
       ELSE /\ remote' = [remote EXCEPT !.pc = "idle"]
            /\ UNCHANGED <<users, credited>>
  /\ ret' = NoRet
  /\ UNCHANGED <<ctl, now, ops, nextId, trackingData, storage, sessions,
                 taskRunning, inflight, crashed, otherAccount, startPoint,
                 provVars, hookVars, useLocation>>

\* ------------------------------------------------ deleteTrackingSession
\* the users document of an account
Account(u) == IF u = User THEN users ELSE otherAccount

\* what the transaction body of a deletion writes (360-364)
RemoveRide(agg, distance, duration) ==
  [rides |-> Max(agg.rides - 1, 0),
   totalDistance |-> Max(agg.totalDistance - distance, 0),
   totalTime |-> Max(agg.totalTime - duration, 0)]

\* an ownership test that lets everybody through
OwnedByAnyone(doc, userId) == TRUE

\* the session belongs to the user (344)
OwnedBy(doc, userId) == doc.userId = userId

DeleteFailed(c, why) == [op |-> "delete", ok |-> FALSE, error |-> why,
                         id |-> ops[c].id, user |-> ops[c].user]

\* deleteTrackingSession(trackingId, userId): the session document is asked for (330-336)
SvcDeleteTrackingSession(c) ==
  /\ ctl = "service" /\ Idle(c)
  /\ \E id \in 1..(MaxSessions + 1), u \in {User, OtherUser} :
       Call(c, [kind |-> "delete", pc |-> "get", solo |-> TRUE, busy |-> FALSE,
                session |-> SvcSession, id |-> id, user |-> u,
                doc |-> <<>>, snap |-> ZeroAggregate, upd |-> ZeroAggregate])
  /\ ret' = NoRet
  /\ UNCHANGED <<users, nextId, trackingData, storage, sessions, taskRunning,
                 inflight, credited>>
  /\ svcFrame

\* the document arrives: not found, not the user's, or its deletion is requested (333-349)
SvcDeleteGet(c) ==
  /\ ctl = "service" /\ ops[c].kind = "delete" /\ ops[c].pc = "get"
  /\ \E ok \in BOOLEAN :
       IF ~ok THEN Return(c, DeleteFailed(c, "thrown"))
       ELSE LET found == {d \in sessions : d.id = ops[c].id} IN
              IF found = {} THEN Return(c, DeleteFailed(c, "Tracking session not found"))
              ELSE LET doc == CHOOSE d \in found : TRUE IN
                     IF ~OwnedBy(doc, ops[c].user)
                     THEN Return(c, DeleteFailed(c, "Not authorized to delete this session"))
                     ELSE Goto(c, [ops[c] EXCEPT !.pc = "delete", !.doc = <<doc>>])
  /\ UNCHANGED <<users, nextId, trackingData, storage, sessions, taskRunning,
                 inflight, credited>>
  /\ svcFrame

\* the document is deleted; the transaction is started (349-353)
SvcDeleteDoc(c) ==
  /\ ctl = "service" /\ ops[c].kind = "delete" /\ ops[c].pc = "delete"
  /\ \E ok \in BOOLEAN :
       IF ok
       THEN /\ sessions' = {d \in sessions : d.id # ops[c].id}
            /\ Goto(c, [ops[c] EXCEPT !.pc = "txnGet"])
       ELSE /\ Return(c, DeleteFailed(c, "thrown"))
            /\ UNCHANGED sessions
  /\ UNCHANGED <<users, otherAccount, nextId, trackingData, storage, taskRunning,
                 inflight, credited>>
  /\ UNCHANGED <<ctl, now, startPoint, provVars, remote, crashed, hookVars, useLocation>>

\* transaction.get resolves; the body computes the reduced totals (353-365)
SvcDeleteTxnGet(c) ==
  /\ ctl = "service" /\ ops[c].kind = "delete" /\ ops[c].pc = "txnGet"
  /\ \E ok \in BOOLEAN :
       IF ok
       THEN Goto(c, [ops[c] EXCEPT !.pc = "txnCommit", !.snap = Account(ops[c].user),
                       !.upd = RemoveRide(Account(ops[c].user), ops[c].doc[1].distance,
                                          ops[c].doc[1].duration)])
       ELSE Return(c, DeleteFailed(c, "thrown"))
  /\ UNCHANGED <<users, nextId, trackingData, storage, sessions, taskRunning,
                 inflight, credited>>
  /\ svcFrame

\* the transaction's commit, and the return (353-368)
SvcDeleteTxnCommit(c) ==
  /\ ctl = "service" /\ ops[c].kind = "delete" /\ ops[c].pc = "txnCommit"
  /\ IF Commits(ops[c].snap, Account(ops[c].user))
     THEN /\ IF ops[c].user = User
             THEN users' = ops[c].upd /\ UNCHANGED otherAccount
             ELSE otherAccount' = ops[c].upd /\ UNCHANGED users
          /\ Return(c, [op |-> "delete", ok |-> TRUE, error |-> "",
                        id |-> ops[c].id, user |-> ops[c].user,
                        doc |-> ops[c].doc[1], pre |-> ops[c].snap])
     ELSE /\ Goto(c, [ops[c] EXCEPT !.pc = "txnGet"])
          /\ UNCHANGED <<users, otherAccount>>
  /\ UNCHANGED <<nextId, trackingData, storage, sessions, taskRunning, inflight, credited>>
  /\ UNCHANGED <<ctl, now, startPoint, provVars, remote, crashed, hookVars, useLocation>>

SvcDelete(c) ==
  \/ SvcDeleteTrackingSession(c) \/ SvcDeleteGet(c) \/ SvcDeleteDoc(c)
  \/ SvcDeleteTxnGet(c) \/ SvcDeleteTxnCommit(c)

\* the other account completes a ride of its own on its own device: its record
\* and its totals (169-200)
OtherRide ==
  /\ ctl = "service" /\ otherAccount.rides = 0
  /\ ~\E d \in sessions : d.userId = OtherUser
  /\ sessions' = SetDoc(sessions,
       [TrackingDataToSave(MaxSessions + 1,
          [InitialTrackingData EXCEPT !.startTime = 0, !.endTime = 0, !.duration = 1,
                                      !.distance = 1, !.minSpeed = 0])
        EXCEPT !.userId = OtherUser])
  /\ otherAccount' = AddRide(otherAccount, 1, 1)
  /\ ret' = NoRet
  /\ UNCHANGED <<ctl, now, ops, users, startPoint, nextId, trackingData, storage,
                 taskRunning, inflight, remote, credited, crashed, provVars, hookVars, useLocation>>


SvcCall(c) ==
  \/ SvcStartTracking(c) \/ SvcStopTracking(c)
  \/ SvcPauseTracking(c) \/ SvcResumeTracking(c)

SvcStep(c) ==
  \/ SvcStartPerm(c) \/ SvcStartTask(c) \/ SvcStartFix(c)
  \/ SvcStartPutId(c) \/ SvcStartPutStart(c)
  \/ SvcStopHalt(c) \/ SvcStopGetId(c) \/ SvcStopSave(c)
  \/ SvcStopTxnGet(c) \/ SvcStopTxnCommit(c) \/ SvcStopCleanup(c)
  \/ SvcPauseHalt(c) \/ SvcResumeTask(c)

SvcNext ==
  \/ \E c \in DOMAIN ops : SvcCall(c) \/ SvcStep(c)
  \/ SvcEmit \/ SvcUpdateTracking

\* ----------------------------------------------------- TrackingProvider
ProvActive == isTracking
ProvPaused == ~isTracking /\ activityDocRef # NoId

\* a session that startTracking has set up completely and pauseTracking has paused
ProvPausedSession ==
  /\ ~isTracking
  /\ \E d \in rides : d.id = activityDocRef /\ d.status = "paused"

provFrame == UNCHANGED <<ctl, users, otherAccount, startPoint, closure, svcVars, hookVars, useLocation>>

\* the stats and route a function of the component reads: those of the render
\* that created it (the `stats` and `route` constants of part_004 289-330)
Seen == IF closure = NoClosure THEN [stats |-> stats, route |-> route] ELSE closure

NewRide(id) ==
  [id |-> id, status |-> "active", duration |-> 0, distance |-> 0, averageSpeed |-> 0,
   maxSpeed |-> 0, route |-> <<>>, ended |-> FALSE]

\* updateDoc(ref, fields): the fields given replace those of the document
UpdateDoc(coll, id, fields) ==
  {IF d.id = id
   THEN [f \in DOMAIN d |-> IF f \in DOMAIN fields THEN fields[f] ELSE d[f]]
   ELSE d : d \in coll}

\* watchPositionAsync resolved and its handle is stored: a handle that still
\* held a subscription loses it without removing it
Subscribe ==
  /\ leaked' = IF locationSubscription THEN leaked + 1 ELSE leaked
  /\ locationSubscription' = TRUE

PFailed(c, what) ==
  [op |-> what, ok |-> FALSE, solo |-> ops[c].solo, busy |-> ops[c].busy, doc |-> NoId]

\* startTracking: the guard; the permission is asked for (part_004 81-87)
ProvStartTracking(c) ==
  /\ ctl = "provider" /\ Idle(c)
  /\ nextId + PendingStarts < MaxSessions
  /\ IF isTracking
     THEN /\ ret' = [op |-> "start", ok |-> FALSE, solo |-> ~Others(c), busy |-> TRUE,
                     doc |-> NoId]
          /\ UNCHANGED ops
     ELSE /\ Call(c, [kind |-> "start", pc |-> "perm", solo |-> TRUE, id |-> NoId,
                      busy |-> ProvPaused, session |-> ProvPausedSession, loc |-> NoFix])
          /\ ret' = NoRet
  /\ UNCHANGED <<now, nextId, provVars>>
  /\ provFrame

\* the permission answer; the current position is asked for (87-95)
ProvStartPerm(c) ==
  /\ ctl = "provider" /\ ops[c].kind = "start" /\ ops[c].pc = "perm"
  /\ \E granted \in BOOLEAN :
       IF granted
       THEN Goto(c, [ops[c] EXCEPT !.pc = "fix"])
       ELSE Return(c, PFailed(c, "start"))
  /\ UNCHANGED <<now, nextId, provVars>>
  /\ provFrame

\* the first fix; route and stats are reset; the ride document is added (93-116)
ProvStartFix(c) ==
  /\ ctl = "provider" /\ ops[c].kind = "start" /\ ops[c].pc = "fix"
  /\ \E ok \in BOOLEAN :
       IF ok
       THEN \E loc \in Fixes(now) :
              /\ route' = <<>>
              /\ stats' = [InitialStats EXCEPT !.startTime = now]
              /\ startPoint' = loc
              /\ Goto(c, [ops[c] EXCEPT !.pc = "add", !.loc = loc])
       ELSE /\ Return(c, PFailed(c, "start"))
            /\ UNCHANGED <<route, stats, startPoint>>
  /\ UNCHANGED <<now, nextId, isTracking, locationSubscription, activityDocRef,
                 startTimeRef, lastLocationRef, rides, leaked>>
  /\ UNCHANGED <<ctl, users, otherAccount, closure, svcVars, hookVars, useLocation>>

\* the document exists; the refs and the route are set; the watch is asked for (112-143)
ProvStartAdd(c) ==
  /\ ctl = "provider" /\ ops[c].kind = "start" /\ ops[c].pc = "add"
  /\ \E ok \in BOOLEAN :
       IF ok
       THEN /\ rides' = rides \cup {NewRide(nextId + 1)}
            /\ nextId' = nextId + 1
            /\ activityDocRef' = nextId + 1
            /\ startTimeRef' = now
            /\ lastLocationRef' = ops[c].loc
            /\ route' = <<ops[c].loc>>
            /\ Goto(c, [ops[c] EXCEPT !.pc = "watch", !.id = nextId + 1])
       ELSE /\ Return(c, PFailed(c, "start"))
            /\ UNCHANGED <<rides, nextId, activityDocRef, startTimeRef, lastLocationRef, route>>
  /\ UNCHANGED <<now, isTracking, stats, locationSubscription, leaked>>
  /\ provFrame

\* the subscription is open and its handle stored; isTracking is set (136-145)
ProvStartWatch(c) ==
  /\ ctl = "provider" /\ ops[c].kind = "start" /\ ops[c].pc = "watch"
  /\ \E ok \in BOOLEAN :
       IF ok
       THEN /\ Subscribe
            /\ isTracking' = TRUE
            /\ Return(c, [op |-> "start", ok |-> TRUE, solo |-> ops[c].solo,
                          busy |-> ops[c].busy, doc |-> ops[c].id])
       ELSE /\ Return(c, PFailed(c, "start"))
            /\ UNCHANGED <<locationSubscription, leaked, isTracking>>
  /\ UNCHANGED <<now, nextId, route, stats, activityDocRef, startTimeRef,
                 lastLocationRef, rides>>
  /\ provFrame

\* updateStats (177-221): the new stats, given the refs and the wall clock
updateStats(prevStats, newLocation, last, start, clock) ==
  LET segmentDistance == calculateDistance(last.latitude, last.longitude,
                                           newLocation.latitude, newLocation.longitude)
      newDistance == IF last # NoFix /\ segmentDistance < JumpLimit
                     THEN prevStats.distance + segmentDistance
                     ELSE prevStats.distance
      currentSpeed == newLocation.speed * KmhPerMps
      duration == Since(start, clock)
  IN [distance |-> newDistance,
      currentSpeed |-> currentSpeed,
      averageSpeed |-> IF duration > 0 THEN (AvgScale * newDistance) \div duration ELSE 0,
      maxSpeed |-> Max(prevStats.maxSpeed, currentSpeed),
      duration |-> duration,
      startTime |-> prevStats.startTime,
      endTime |-> NoTime]

\* handleLocationUpdate (153-174): a live subscription reports the next fix
LocationUpdate(fixes, bound, tmax) ==
  /\ ctl = "provider"
  /\ locationSubscription \/ leaked > 0
  /\ now < tmax /\ Len(route) < bound
  /\ now' = now + 1
  /\ \E loc \in fixes :
       /\ route' = Append(route, loc)
       /\ stats' = updateStats(stats, loc, lastLocationRef, startTimeRef, now + 1)
       /\ lastLocationRef' = loc
  /\ ret' = NoRet
  /\ UNCHANGED <<ops, nextId, isTracking, locationSubscription, activityDocRef,
                 startTimeRef, rides, leaked>>
  /\ provFrame

handleLocationUpdate == LocationUpdate(Fixes(now + 1), MaxRoute, MaxTime)

\* handleLocationUpdate (153-174) when the component has not been rendered
\* again yet: the state moves on, the functions in use still hold the stats and
\* route of the last render
LocationUpdateUnrendered ==
  /\ ctl = "provider"
  /\ locationSubscription \/ leaked > 0
  /\ now < MaxTime /\ Len(route) < MaxRoute
  /\ now' = now + 1
  /\ \E loc \in Fixes(now + 1) :
       /\ route' = Append(route, loc)
       /\ stats' = updateStats(stats, loc, lastLocationRef, startTimeRef, now + 1)
       /\ lastLocationRef' = loc
  /\ closure' = Seen
  /\ ret' = NoRet
  /\ UNCHANGED <<ops, nextId, isTracking, locationSubscription, activityDocRef,
                 startTimeRef, rides, leaked>>
  /\ UNCHANGED <<ctl, users, otherAccount, startPoint, svcVars, hookVars, useLocation>>

\* the component is rendered again: its functions are created anew
Render ==
  /\ ctl = "provider" /\ closure # NoClosure
  /\ closure' = NoClosure
  /\ ret' = NoRet
  /\ UNCHANGED <<now, ops, nextId, isTracking, route, stats, locationSubscription,
                 activityDocRef, startTimeRef, lastLocationRef, rides, leaked>>
  /\ UNCHANGED <<ctl, users, otherAccount, startPoint, svcVars, hookVars, useLocation>>

\* pauseTracking (224-246), up to the updateDoc request
ProvPauseTracking(c) ==
  /\ ctl = "provider" /\ Idle(c)
  /\ IF ~isTracking
     THEN /\ ret' = [op |-> "pause", ok |-> FALSE, solo |-> ~Others(c), busy |-> FALSE,
                     doc |-> NoId]
          /\ UNCHANGED <<ops, locationSubscription, isTracking>>
     ELSE /\ locationSubscription' = FALSE
          /\ isTracking' = FALSE
          /\ IF activityDocRef # NoId
             THEN /\ Call(c, [kind |-> "pause", pc |-> "upd", solo |-> TRUE, busy |-> TRUE,
                              id |-> activityDocRef,
                              data |-> [status |-> "paused", duration |-> stats.duration,
                                        distance |-> stats.distance,
                                        averageSpeed |-> stats.averageSpeed,
                                        maxSpeed |-> stats.maxSpeed]])
                  /\ ret' = NoRet
             ELSE /\ ret' = [op |-> "pause", ok |-> TRUE, solo |-> ~Others(c),
                             busy |-> TRUE, doc |-> NoId]
                  /\ UNCHANGED ops
  /\ UNCHANGED <<now, nextId, route, stats, activityDocRef, startTimeRef,
                 lastLocationRef, rides, leaked>>
  /\ provFrame

\* the paused state is saved (238-250)
ProvPauseUpd(c) ==
  /\ ctl = "provider" /\ ops[c].kind = "pause" /\ ops[c].pc = "upd"
  /\ \E ok \in BOOLEAN :
       IF ok
       THEN /\ rides' = UpdateDoc(rides, ops[c].id, ops[c].data)
            /\ Return(c, [op |-> "pause", ok |-> TRUE, solo |-> ops[c].solo,
                          busy |-> TRUE, doc |-> ops[c].id])
       ELSE /\ Return(c, PFailed(c, "pause"))
            /\ UNCHANGED rides
  /\ UNCHANGED <<now, nextId, isTracking, route, stats, locationSubscription,
                 activityDocRef, startTimeRef, lastLocationRef, leaked>>
  /\ provFrame

\* resumeTracking: the guard; the watch is asked for (254-266)
ProvResumeTracking(c) ==
  /\ ctl = "provider" /\ Idle(c)
  /\ IF isTracking
     THEN /\ ret' = [op |-> "resume", ok |-> FALSE, solo |-> ~Others(c), busy |-> TRUE,
                     doc |-> NoId]
          /\ UNCHANGED ops
     ELSE /\ Call(c, [kind |-> "resume", pc |-> "watch", solo |-> TRUE,
                      busy |-> ProvPaused, session |-> ProvPausedSession, id |-> NoId])
          /\ ret' = NoRet
  /\ UNCHANGED <<now, nextId, provVars>>
  /\ provFrame

\* the subscription is open; isTracking is set; the status write is asked for (259-276)
ProvResumeWatch(c) ==
  /\ ctl = "provider" /\ ops[c].kind = "resume" /\ ops[c].pc = "watch"
  /\ \E ok \in BOOLEAN :
       IF ok
       THEN /\ Subscribe
            /\ isTracking' = TRUE
            /\ IF activityDocRef # NoId
               THEN Goto(c, [ops[c] EXCEPT !.pc = "upd", !.id = activityDocRef])
               ELSE Return(c, [op |-> "resume", ok |-> TRUE, solo |-> ops[c].solo,
                               busy |-> ops[c].busy, session |-> ops[c].session,
                               doc |-> NoId])
       ELSE /\ Return(c, PFailed(c, "resume"))
            /\ UNCHANGED <<locationSubscription, leaked, isTracking>>
  /\ UNCHANGED <<now, nextId, route, stats, activityDocRef, startTimeRef,
                 lastLocationRef, rides>>
  /\ provFrame

\* the status is set back to active (272-280)
ProvResumeUpd(c) ==
  /\ ctl = "provider" /\ ops[c].kind = "resume" /\ ops[c].pc = "upd"
  /\ \E ok \in BOOLEAN :
       IF ok
       THEN /\ rides' = UpdateDoc(rides, ops[c].id, [status |-> "active"])
            /\ Return(c, [op |-> "resume", ok |-> TRUE, solo |-> ops[c].solo,
                          busy |-> ops[c].busy, session |-> ops[c].session,
                          doc |-> ops[c].id])
       ELSE /\ Return(c, PFailed(c, "resume"))
            /\ UNCHANGED rides
  /\ UNCHANGED <<now, nextId, isTracking, route, stats, locationSubscription,
                 activityDocRef, startTimeRef, lastLocationRef, leaked>>
  /\ provFrame

\* what stopTracking writes to the ride document (301-318)
CompletedFields(st, rt) ==
  [status |-> "completed", ended |-> TRUE, duration |-> st.duration,
   distance |-> st.distance, averageSpeed |-> st.averageSpeed,
   maxSpeed |-> st.maxSpeed, route |-> rt]

\* stopTracking (284-300): the subscription is removed, endTime set, the final
\* write requested; with no document there is nothing to await
ProvStopTracking(c) ==
  /\ ctl = "provider" /\ Idle(c)
  /\ locationSubscription' = FALSE
  /\ stats' = [stats EXCEPT !.endTime = now]
  /\ IF activityDocRef # NoId
     THEN /\ Call(c, [kind |-> "stop", pc |-> "upd", solo |-> TRUE,
                      busy |-> ProvActive \/ ProvPaused, active |-> ProvActive,
                      id |-> activityDocRef,
                      data |-> CompletedFields(Seen.stats, Seen.route),
                      stats |-> Seen.stats, route |-> Seen.route, pre |-> users])
          /\ ret' = NoRet
          /\ UNCHANGED <<isTracking, activityDocRef, startTimeRef, lastLocationRef>>
     ELSE /\ isTracking' = FALSE
          /\ activityDocRef' = NoId
          /\ startTimeRef' = NoTime
          /\ lastLocationRef' = NoFix
          /\ ret' = [op |-> "stop", ok |-> TRUE, solo |-> ~Others(c),
                     busy |-> ProvActive \/ ProvPaused, active |-> ProvActive,
                     doc |-> NoId, stats |-> Seen.stats, route |-> Seen.route,
                     pre |-> users]
          /\ UNCHANGED ops
  /\ UNCHANGED <<now, nextId, route, rides, leaked>>
  /\ provFrame

\* the final write is acknowledged; the state is reset (301-331)
ProvStopUpd(c) ==
  /\ ctl = "provider" /\ ops[c].kind = "stop" /\ ops[c].pc = "upd"
  /\ \E ok \in BOOLEAN :
       IF ok
       THEN /\ rides' = UpdateDoc(rides, ops[c].id, ops[c].data)
            /\ isTracking' = FALSE
            /\ activityDocRef' = NoId
            /\ startTimeRef' = NoTime
            /\ lastLocationRef' = NoFix
            /\ Return(c, [op |-> "stop", ok |-> TRUE, solo |-> ops[c].solo,
                          busy |-> ops[c].busy, active |-> ops[c].active,
                          doc |-> ops[c].id, stats |-> ops[c].stats,
                          route |-> ops[c].route, pre |-> ops[c].pre])
       ELSE /\ Return(c, [op |-> "stop", ok |-> FALSE, solo |-> ops[c].solo,
                          busy |-> ops[c].busy, active |-> ops[c].active,
                          doc |-> ops[c].id, stats |-> ops[c].stats,
                          route |-> ops[c].route, pre |-> ops[c].pre, at |-> "save"])
            /\ UNCHANGED <<rides, isTracking, activityDocRef, startTimeRef, lastLocationRef>>
  /\ UNCHANGED <<now, nextId, route, stats, locationSubscription, leaked>>
  /\ provFrame

\* a reset that forgets to clear the route
ProvDiscardResetKeepsRoute ==
  /\ isTracking' = FALSE
  /\ route' = route
  /\ stats' = InitialStats
  /\ activityDocRef' = NoId
  /\ startTimeRef' = NoTime
  /\ lastLocationRef' = NoFix

\* the reset at the end of discardTracking (357-371)
ProvDiscardReset ==
  /\ isTracking' = FALSE
  /\ route' = <<>>
  /\ stats' = InitialStats
  /\ activityDocRef' = NoId
  /\ startTimeRef' = NoTime
  /\ lastLocationRef' = NoFix

\* discardTracking (340-354): the subscription is removed, the status write requested
ProvDiscardTracking(c) ==
  /\ ctl = "provider" /\ Idle(c)
  /\ locationSubscription' = FALSE
  /\ IF activityDocRef # NoId
     THEN /\ Call(c, [kind |-> "discard", pc |-> "upd", solo |-> TRUE,
                      busy |-> ProvActive \/ ProvPaused, id |-> activityDocRef,
                      samples |-> Len(route), pre |-> users])
          /\ ret' = NoRet
          /\ UNCHANGED <<isTracking, route, stats, activityDocRef, startTimeRef,
                         lastLocationRef>>
     ELSE /\ ProvDiscardReset
          /\ ret' = [op |-> "discard", ok |-> TRUE, solo |-> ~Others(c),
                     busy |-> ProvActive \/ ProvPaused, doc |-> NoId,
                     samples |-> Len(route), pre |-> users]
          /\ UNCHANGED ops
  /\ UNCHANGED <<now, nextId, rides, leaked>>
  /\ provFrame

\* the status write is acknowledged; the state is reset (350-371)
ProvDiscardUpd(c) ==
  /\ ctl = "provider" /\ ops[c].kind = "discard" /\ ops[c].pc = "upd"
  /\ \E ok \in BOOLEAN :
       IF ok
       THEN /\ rides' = UpdateDoc(rides, ops[c].id, [status |-> "discarded"])
            /\ ProvDiscardReset
            /\ Return(c, [op |-> "discard", ok |-> TRUE, solo |-> ops[c].solo,
                          busy |-> ops[c].busy, doc |-> ops[c].id,
                          samples |-> ops[c].samples, pre |-> ops[c].pre])
       ELSE /\ Return(c, [op |-> "discard", ok |-> FALSE, solo |-> ops[c].solo,
                          busy |-> ops[c].busy, doc |-> ops[c].id,
                          samples |-> ops[c].samples, pre |-> ops[c].pre])
            /\ UNCHANGED <<rides, isTracking, route, stats, activityDocRef,
                           startTimeRef, lastLocationRef>>
  /\ UNCHANGED <<now, nextId, locationSubscription, leaked>>
  /\ provFrame

ProvCall(c) ==
  \/ ProvStartTracking(c) \/ ProvPauseTracking(c) \/ ProvResumeTracking(c)
  \/ ProvStopTracking(c) \/ ProvDiscardTracking(c)

ProvStep(c) ==
  \/ ProvStartPerm(c) \/ ProvStartFix(c) \/ ProvStartAdd(c) \/ ProvStartWatch(c)
  \/ ProvPauseUpd(c) \/ ProvResumeWatch(c) \/ ProvResumeUpd(c)
  \/ ProvStopUpd(c) \/ ProvDiscardUpd(c)

ProvNext ==
  \/ \E c \in DOMAIN ops : ProvCall(c)
  \/ \E c \in DOMAIN ops : ProvStep(c)
  \/ handleLocationUpdate

\* ------------------------------------------------------------ useLocation
\* a sequence without its i-th element
Without(seq, i) == SubSeq(seq, 1, i - 1) \o SubSeq(seq, i + 1, Len(seq))

\* the cleanup of the start/stop effect (140-146): the effect's closures see
\* isMounted false; the subscription the handle names is removed, the handle kept
Cleanup(h) ==
  [h EXCEPT !.pending = [i \in DOMAIN @ |->
                           IF @[i].kind = "effect" THEN [@[i] EXCEPT !.isMounted = FALSE]
                           ELSE @[i]],
            !.live = @ \ {h.locationSubscription}]

\* subscription.remove() and the handle set to null (89-92, 184-187)
Unsubscribed(h) ==
  [h EXCEPT !.live = @ \ {h.locationSubscription}, !.locationSubscription = NoId]

\* the body of the start/stop effect up to its first await (86-99, 129-138):
\* startLocationTracking is called, or the subscription is removed
EffectBody(h) ==
  IF h.hasPermission /\ h.enabled
  THEN [Unsubscribed(h) EXCEPT
          !.pending = Append(@, [kind |-> "effect", pc |-> "fix", isMounted |-> TRUE])]
  ELSE IF ~h.enabled /\ h.locationSubscription # NoId
  THEN [Unsubscribed(h) EXCEPT !.isTracking = FALSE]
  ELSE h

locFrame == UNCHANGED <<ctl, now, ops, users, otherAccount, startPoint, nextId,
                        svcVars, provVars, hookRoute, hookDuration, hookStats,
                        effectPending, userWeight, preferredUnit, ranOn, distanceCall,
                        calories>>

\* the permission request made on mount is granted (40-56): hasPermission
\* changes and the start/stop effect runs again
LocPermission ==
  /\ ctl = "location" /\ useLocation.mounted /\ ~useLocation.hasPermission
  /\ Len(useLocation.pending) < MaxPending
  /\ useLocation' = EffectBody(Cleanup([useLocation EXCEPT !.hasPermission = TRUE]))
  /\ ret' = NoRet
  /\ locFrame

\* the component renders the hook with another value of enabled: the effect's
\* cleanup runs, then its body (85-148)
LocEnabled ==
  /\ ctl = "location" /\ useLocation.mounted
  /\ Len(useLocation.pending) < MaxPending
  /\ useLocation' = EffectBody(Cleanup([useLocation EXCEPT !.enabled = ~@,
                                                           !.wanted = ~useLocation.enabled]))
  /\ ret' = NoRet
  /\ locFrame

\* the component unmounts: the cleanup alone (140-146)
LocUnmount ==
  /\ ctl = "location" /\ useLocation.mounted
  /\ useLocation' = [Cleanup(useLocation) EXCEPT !.mounted = FALSE, !.wanted = FALSE]
  /\ ret' = NoRet
  /\ locFrame

\* getCurrentPositionAsync answers a run of startLocationTracking (97-106):
\* it goes on to watchPositionAsync if its effect is still the current one
LocFix ==
  /\ ctl = "location"
  /\ \E i \in DOMAIN useLocation.pending, ok \in BOOLEAN :
       /\ useLocation.pending[i].pc = "fix"
       /\ useLocation' =
            IF ok /\ useLocation.pending[i].isMounted
            THEN [useLocation EXCEPT !.pending[i].pc = "watch"]
            ELSE [useLocation EXCEPT !.pending = Without(@, i)]
  /\ ret' = NoRet
  /\ locFrame

\* watchPositionAsync answers (106-121, 189-201): the new subscription is
\* assigned to the handle and isTracking set
LocWatch ==
  /\ ctl = "location"
  /\ useLocation.created < MaxSubscriptions
  /\ \E i \in DOMAIN useLocation.pending, ok \in BOOLEAN :
       /\ useLocation.pending[i].pc = "watch"
       /\ useLocation' =
            IF ok
            THEN [useLocation EXCEPT
                    !.created = @ + 1,
                    !.live = @ \cup {useLocation.created + 1},
                    !.locationSubscription = useLocation.created + 1,
                    !.isTracking = useLocation.mounted,
                    !.pending = Without(@, i)]
            ELSE [useLocation EXCEPT !.pending = Without(@, i)]
  /\ ret' = NoRet
  /\ locFrame

\* startTracking of the hook up to its await (176-189)
LocStartTracking ==
  /\ ctl = "location" /\ useLocation.mounted /\ useLocation.hasPermission
  /\ Len(useLocation.pending) < MaxPending
  /\ useLocation' =
       [Unsubscribed(useLocation) EXCEPT
          !.pending = Append(@, [kind |-> "start", pc |-> "watch", isMounted |-> TRUE]),
          !.wanted = TRUE]
  /\ ret' = NoRet
  /\ locFrame

\* stopTracking of the hook (210-216)
LocStopTracking ==
  /\ ctl = "location" /\ useLocation.mounted
  /\ useLocation' =
       [(IF useLocation.locationSubscription # NoId
         THEN [Unsubscribed(useLocation) EXCEPT !.isTracking = FALSE]
         ELSE useLocation)
        EXCEPT !.wanted = FALSE]
  /\ ret' = NoRet
  /\ locFrame

LocationNext ==
  \/ LocPermission \/ LocEnabled \/ LocUnmount
  \/ LocFix \/ LocWatch
  \/ LocStartTracking \/ LocStopTracking

LocationSpec == InitFor("location", {"ui"}) /\ [][LocationNext]_vars

\* ---------------------------------------------------------------- useStats
\* the points a route handed to the hook is made of
Samples ==
  {[Fix(lat, spd, 0) EXCEPT !.altitude = alt] :
     lat \in {1, 2, 4}, spd \in {0, 2, 5}, alt \in {0, 1}}

Durations == {0, 3600}

\* the component renders the hook with a route one point longer
HookRoute ==
  /\ ctl = "hook" /\ ~effectPending
  /\ Len(hookRoute) < MaxHookRoute
  /\ \E s \in Samples :
       hookRoute' = Append(hookRoute, [s EXCEPT !.timestamp = Len(hookRoute) + 1])
  /\ effectPending' = TRUE
  /\ UNCHANGED <<hookDuration, hookStats, userWeight, preferredUnit, ranOn, distanceCall,
                 calories>>
  /\ UNCHANGED <<envVars, svcVars, provVars, useLocation>>

\* the component renders the hook with another duration
HookDuration ==
  /\ ctl = "hook" /\ ~effectPending
  /\ \E d \in Durations \ {hookDuration} : hookDuration' = d
  /\ effectPending' = TRUE
  /\ UNCHANGED <<hookRoute, hookStats, userWeight, preferredUnit, ranOn, distanceCall,
                 calories>>
  /\ UNCHANGED <<envVars, svcVars, provVars, useLocation>>

\* the user's distance unit changes (24)
HookUnit ==
  /\ ctl = "hook" /\ ~effectPending
  /\ preferredUnit' = IF preferredUnit = "km" THEN "mi" ELSE "km"
  /\ effectPending' = TRUE
  /\ UNCHANGED <<hookRoute, hookDuration, hookStats, userWeight, ranOn, distanceCall,
                 calories>>
  /\ UNCHANGED <<envVars, svcVars, provVars, useLocation>>

\* the component renders the hook with a new array of the same points: the
\* effect's dependency has changed (238-240)
HookRerender ==
  /\ ctl = "hook" /\ ~effectPending
  /\ effectPending' = TRUE
  /\ UNCHANGED <<hookRoute, hookDuration, hookStats, userWeight, preferredUnit, ranOn,
                 distanceCall, calories>>
  /\ UNCHANGED <<envVars, svcVars, provVars, useLocation>>

Weights == {NoWeight, 60, 70}

\* the profile is loaded or edited: user.settings.weight
HookUser ==
  /\ ctl = "hook"
  /\ \E w \in Weights \ {userWeight} : userWeight' = w
  /\ UNCHANGED <<hookRoute, hookDuration, hookStats, effectPending, preferredUnit, ranOn,
                 distanceCall, calories>>
  /\ UNCHANGED <<envVars, svcVars, provVars, useLocation>>

\* what a run of processRouteData reads
HookInputs ==
  [route |-> hookRoute, duration |-> hookDuration, unit |-> preferredUnit,
   weight |-> userWeight]

\* the effect on [route, duration, preferredUnit] runs (238-240)
HookEffect ==
  /\ ctl = "hook" /\ effectPending
  /\ hookStats' = processRouteData(hookRoute)
  /\ effectPending' = FALSE
  /\ ranOn' = [again |-> ranOn # NoRun /\ ranOn.inputs = HookInputs, inputs |-> HookInputs]
  /\ UNCHANGED <<hookRoute, hookDuration, userWeight, preferredUnit, distanceCall, calories>>
  /\ UNCHANGED <<envVars, svcVars, provVars, useLocation>>

HookNext == HookRoute \/ HookDuration \/ HookUnit \/ HookEffect

EngineSpec == InitFor("hook", {"ui"}) /\ [][HookNext]_vars

\* ------------------------- the effect run again, on the same inputs or on others
RerunNext == HookRoute \/ HookDuration \/ HookUser \/ HookRerender \/ HookEffect

RerunSpec == InitFor("hook", {"ui"}) /\ [][RerunNext]_vars

\* ----------------------------------------- calculateCalories, called directly
AverageSpeeds == {0, 72, 159, 160, 161, 199, 200, 201, 249, 250, 251, 300}
CallDurations == {0, 600, 3600, 7200}

\* a component calls the calculateCalories the hook returns (280)
HookCalories ==
  /\ ctl = "hook"
  /\ \E d \in CallDurations, a \in AverageSpeeds :
       calories' = [durationSec |-> d, averageSpeedKmh |-> a, weight |-> userWeight,
                    out |-> calculateCalories(d, 0, a)]
  /\ UNCHANGED <<hookRoute, hookDuration, hookStats, effectPending, userWeight,
                 preferredUnit, ranOn, distanceCall>>
  /\ UNCHANGED <<envVars, svcVars, provVars, useLocation>>

CalorieNext == HookUser \/ HookCalories

CalorieSpec == InitFor("hook", {"ui"}) /\ [][CalorieNext]_vars

\* ----------------------------------------- calculateDistance, called directly
Coordinates == 0..3

\* the unit changes between calls; no effect is waited for
HookUnitDirect ==
  /\ ctl = "hook"
  /\ preferredUnit' = IF preferredUnit = "km" THEN "mi" ELSE "km"
  /\ UNCHANGED <<hookRoute, hookDuration, hookStats, effectPending, userWeight, ranOn,
                 distanceCall, calories>>
  /\ UNCHANGED <<envVars, svcVars, provVars, useLocation>>

\* a component calls the calculateDistance the hook returns (278) with two
\* points, in both orders; the provider's own calculateDistance gets the same
HookDistance ==
  /\ ctl = "hook"
  /\ \E lat1 \in Coordinates, lon1 \in Coordinates, lat2 \in Coordinates, lon2 \in Coordinates :
       distanceCall' =
         [lat1 |-> lat1, lon1 |-> lon1, lat2 |-> lat2, lon2 |-> lon2, unit |-> preferredUnit,
          hook |-> useStatsDistance(lat1, lon1, lat2, lon2),
          hookBack |-> useStatsDistance(lat2, lon2, lat1, lon1),
          provider |-> calculateDistance(lat1, lon1, lat2, lon2),
          providerBack |-> calculateDistance(lat2, lon2, lat1, lon1)]
  /\ UNCHANGED <<hookRoute, hookDuration, hookStats, effectPending, userWeight,
                 preferredUnit, ranOn, calories>>
  /\ UNCHANGED <<envVars, svcVars, provVars, useLocation>>

DistanceNext == HookUnitDirect \/ HookDistance

DistanceSpec == InitFor("hook", {"ui"}) /\ [][DistanceNext]_vars

Next == SvcNext \/ ProvNext

Spec == Init /\ [][Next]_vars

\* ------------------------------------------------ the provider alone
ProviderSpec == InitFor("provider", {"ui"}) /\ [][ProvNext]_vars

\* ------------------------- a ride completed while the other device completes one
SvcStart(c) ==
  \/ SvcStartTracking(c) \/ SvcStartPerm(c) \/ SvcStartTask(c) \/ SvcStartFix(c)
  \/ SvcStartPutId(c) \/ SvcStartPutStart(c)

SvcStop(c) ==
  \/ SvcStopTracking(c) \/ SvcStopHalt(c) \/ SvcStopGetId(c) \/ SvcStopSave(c)
  \/ SvcStopTxnGet(c) \/ SvcStopTxnCommit(c) \/ SvcStopCleanup(c)

TxnNext ==
  \/ \E c \in DOMAIN ops : SvcStart(c)
  \/ \E c \in DOMAIN ops : SvcStop(c)
  \/ SvcEmit \/ SvcUpdateTracking
  \/ RemoteTxnGet \/ RemoteTxnCommit

TxnSpec == InitFor("service", {"ui"}) /\ [][TxnNext]_vars

\* ------------------------------ rides completed, and sessions deleted afterwards
CachedEmit == Produce(CachedFixes(now + 1), MaxRoute, MaxTime)

CachedUpdate == LocationUpdate(CachedFixes(now + 1), MaxRoute, MaxTime)

DeleteNext ==
  \/ \E c \in DOMAIN ops : SvcStart(c)
  \/ \E c \in DOMAIN ops : SvcStop(c)
  \/ \E c \in DOMAIN ops : SvcDelete(c)
  \/ CachedEmit \/ SvcUpdateTracking
  \/ OtherRide

DeleteSpec == InitFor("service", {"ui"}) /\ [][DeleteNext]_vars

\* ------------------- a deletion asked for twice, the two calls overlapping
\* (the deletions are asked for from the history screen, while no start or
\* stop is in progress; no ride is started or stopped while one is pending,
\* and the fixes of a ride arrive between the calls)
TwiceNext ==
  \/ Idle("tap2") /\ SvcStart("tap1")
  \/ Idle("tap2") /\ SvcStop("tap1")
  \/ \E c \in DOMAIN ops :
       (\A d \in DOMAIN ops : ops[d].kind \in {"none", "delete"}) /\ SvcDelete(c)
  \/ (\A d \in DOMAIN ops : Idle(d)) /\ (SvcEmit \/ SvcUpdateTracking)

TwiceSpec == InitFor("service", {"tap1", "tap2"}) /\ [][TwiceNext]_vars

\* ------------------------------------- a long ride, a crash and the recovery
SvcRecover(c) ==
  \/ SvcCheckForInterruptedTracking(c) \/ SvcResumeInterruptedTracking(c)
  \/ SvcRecoverFix(c) \/ SvcRecoverTask(c)

LongNext ==
  \/ \E c \in DOMAIN ops : SvcStart(c)
  \/ \E c \in DOMAIN ops : SvcRecover(c)
  \/ LongEmit \/ SvcUpdateTracking
  \/ Crash

LongSpec == InitFor("service", {"ui"}) /\ [][LongNext]_vars

\* --------------------- rides stopped, a crash at any moment and the recovery
CrashNext ==
  \/ \E c \in DOMAIN ops : SvcStart(c)
  \/ \E c \in DOMAIN ops : SvcStop(c)
  \/ \E c \in DOMAIN ops : SvcRecover(c)
  \/ SvcEmit \/ SvcUpdateTracking
  \/ Crash

CrashSpec == InitFor("service", {"ui"}) /\ [][CrashNext]_vars

\* ------------- a ride with pauses, on either controller, and the engine
SvcPauseResume(c) ==
  \/ SvcPauseTracking(c) \/ SvcPauseHalt(c)
  \/ SvcResumeTracking(c) \/ SvcResumeTask(c)

ProvStart(c) ==
  \/ ProvStartTracking(c) \/ ProvStartPerm(c) \/ ProvStartFix(c)
  \/ ProvStartAdd(c) \/ ProvStartWatch(c)

ProvPauseResume(c) ==
  \/ ProvPauseTracking(c) \/ ProvPauseUpd(c)
  \/ ProvResumeTracking(c) \/ ProvResumeWatch(c) \/ ProvResumeUpd(c)

RideNext ==
  \/ \E c \in DOMAIN ops : SvcStart(c)
  \/ \E c \in DOMAIN ops : SvcPauseResume(c)
  \/ SvcEmit \/ SvcUpdateTracking
  \/ \E c \in DOMAIN ops : ProvStart(c)
  \/ \E c \in DOMAIN ops : ProvPauseResume(c)
  \/ handleLocationUpdate
  \/ HookNext

RideSpec ==
  /\ \E c \in {"service", "provider", "hook"} : InitFor(c, {"ui"})
  /\ [][RideNext]_vars

\* -------------------- a ride with growing segments, on either controller
JumpEmit == Produce(JumpFixes(now + 1), MaxJump, MaxJump)

JumpUpdate == LocationUpdate(JumpFixes(now + 1), MaxJump, MaxJump)

ProvStop(c) == ProvStopTracking(c) \/ ProvStopUpd(c)

JumpNext ==
  \/ \E c \in DOMAIN ops : SvcStart(c)
  \/ \E c \in DOMAIN ops : SvcStop(c)
  \/ JumpEmit \/ SvcUpdateTracking
  \/ \E c \in DOMAIN ops : ProvStart(c)
  \/ \E c \in DOMAIN ops : ProvStop(c)
  \/ JumpUpdate

JumpSpec ==
  /\ \E c \in {"service", "provider"} : InitFor(c, {"ui"})
  /\ [][JumpNext]_vars

\* ---------------- rides stopped while a sample has yet to reach the rendered state
StaleNext ==
  \/ \E c \in DOMAIN ops : SvcStart(c)
  \/ \E c \in DOMAIN ops : SvcStop(c)
  \/ SvcEmit \/ SvcUpdateTracking
  \/ \E c \in DOMAIN ops : closure = NoClosure /\ ProvStart(c)
  \/ \E c \in DOMAIN ops : ProvStop(c)
  \/ handleLocationUpdate \/ LocationUpdateUnrendered \/ Render

StaleSpec ==
  /\ \E c \in {"service", "provider"} : InitFor(c, {"ui"})
  /\ [][StaleNext]_vars

\* ------------------------------ rides on which the platform reports cached fixes
ClockNext ==
  \/ \E c \in DOMAIN ops : SvcStart(c)
  \/ \E c \in DOMAIN ops : SvcStop(c)
  \/ \E c \in DOMAIN ops : ProvStart(c)
  \/ \E c \in DOMAIN ops : ProvStop(c)
  \/ CachedEmit \/ SvcUpdateTracking
  \/ CachedUpdate

ClockSpec ==
  /\ \E c \in {"service", "provider"} : InitFor(c, {"ui"})
  /\ [][ClockNext]_vars

\* ------------------- the provider, with calls that overlap (a second tap
\* before the first call has resolved)
OverlapNext ==
  \/ \E c \in DOMAIN ops :
       leaked < MaxLeaked /\ (ProvStartTracking(c) \/ ProvStartPerm(c) \/ ProvStartFix(c))
  \/ \E c \in DOMAIN ops :
       leaked < MaxLeaked /\ (ProvStartAdd(c) \/ ProvStartWatch(c))
  \/ \E c \in DOMAIN ops :
       leaked < MaxLeaked /\ (ProvPauseTracking(c) \/ ProvPauseUpd(c))
  \/ \E c \in DOMAIN ops :
       leaked < MaxLeaked
       /\ (ProvResumeTracking(c) \/ ProvResumeWatch(c) \/ ProvResumeUpd(c))

OverlapSpec == InitFor("provider", {"tap1", "tap2"}) /\ [][OverlapNext]_vars

\* ====================================================== the claims
IsPrefix(p, q) == Len(p) <= Len(q) /\ SubSeq(q, 1, Len(p)) = p

NonTerminal(coll) == {d \in coll : d.status \in {"active", "paused"}}

\* C1: a start made while a session is Active or Paused is a no-op: none of
\* its steps creates a record, resets the route or the stats, replaces the
\* recorded start time or the cached session id, or opens a subscription.
C1_StartDuringSessionIsNoOp ==
  [][\A c \in DOMAIN ops :
       (ops[c].kind = "start" /\ ops[c].session /\ ops'[c] # ops[c]) =>
          /\ trackingData' = trackingData
          /\ storage' = storage
          /\ sessions' = sessions
          /\ route' = route /\ stats' = stats
          /\ startTimeRef' = startTimeRef /\ activityDocRef' = activityDocRef
          /\ rides' = rides
          /\ locationSubscription' = locationSubscription /\ leaked' = leaked]_vars

\* C2: in every reachable state at most one persisted record of the user has
\* a non-terminal status (active or paused).
C2_AtMostOneOpenRecord ==
  /\ Cardinality(NonTerminal(rides)) <= 1
  /\ Cardinality(NonTerminal(sessions)) <= 1

\* C3: a successful stop of an Active session leaves exactly one completed
\* record of that session holding the full route and the final figures, has
\* added one ride and the session's distance and duration to the user's
\* aggregate, and leaves the controller not tracking.
C3_StopFinalizesAndCredits ==
  (ret.op = "stop" /\ ret.ok /\ (IF ctl = "service" THEN ret.session ELSE ret.doc # NoId)) =>
    IF ctl = "service"
    THEN /\ {d \in sessions : d.id = ret.id} = {TrackingDataToSave(ret.id, ret.trackingData)}
         /\ users = AddRide(ret.pre, ret.trackingData.distance, ret.trackingData.duration)
         /\ ~trackingData.isTracking
    ELSE ret.active =>
         /\ \E d \in rides :
              /\ d.id = ret.doc /\ d.status = "completed" /\ d.route = ret.route
              /\ d.distance = ret.stats.distance /\ d.duration = ret.stats.duration
              /\ d.averageSpeed = ret.stats.averageSpeed /\ d.maxSpeed = ret.stats.maxSpeed
         /\ users = AddRide(ret.pre, ret.stats.distance, ret.stats.duration)
         /\ ~isTracking /\ activityDocRef = NoId

\* C4: the aggregate update of stop is an atomic read-modify-write: whatever
\* the interleaving with the other device's completion, the aggregate is the
\* initial one plus every committed completion, and once this device's only
\* ride and the other device's ride are both completed it holds exactly the
\* two rides and the sum of their distances and durations.
C4_NoLostUpdate ==
  /\ users = credited
  /\ (ret.op = "stop" /\ ret.ok /\ remote.pc = "done" /\ nextId = 1) =>
       users = AddRide(AddRide(ZeroAggregate, RemoteRide.distance, RemoteRide.duration),
                       ret.trackingData.distance, ret.trackingData.duration)

\* C4's case: both completions are done, and this device's transaction had to
\* run again because the other device committed between its read and its write.
C4_Witness ==
  /\ ret.op = "stop" /\ ret.ok /\ ret.tries = 1
  /\ remote.pc = "done" /\ nextId = 1
  /\ users.rides = 2

\* C5: a successful discard of an Active or Paused session (one that start
\* has given a record) marks the session's record discarded, leaves the user's
\* aggregate as it was, leaves no live subscription, empties the route, zeroes
\* the stats and leaves the controller Idle.
C5_DiscardResets ==
  (ret.op = "discard" /\ ret.ok /\ ret.doc # NoId) =>
    /\ \E d \in rides : d.id = ret.doc /\ d.status = "discarded"
    /\ users = ret.pre
    /\ ~locationSubscription /\ leaked = 0
    /\ route = <<>>
    /\ stats = InitialStats
    /\ ~isTracking /\ activityDocRef = NoId
    /\ startTimeRef = NoTime /\ lastLocationRef = NoFix

\* C5's case: a session with several samples has just been discarded.
C5_Witness ==
  /\ ret.op = "discard" /\ ret.ok /\ ret.doc # NoId
  /\ ret.samples >= 2
  /\ \E d \in rides : d.id = ret.doc /\ d.status = "discarded"

\* C6: a successful recovery from a cached id, start time and route snapshot
\* yields the Active state with the snapshot as its route, the stats of a
\* from-scratch computation over the snapshot, the original session id, and
\* no new record.
C6_RecoveryMatchesEngine ==
  (ret.op = "recover" /\ ret.ok /\ ret.snapshot # <<>>) =>
    /\ trackingData.isTracking
    /\ trackingData.locationHistory = ret.snapshot
    /\ LET fresh == processRouteData(ret.snapshot) IN
         /\ trackingData.distance = fresh.distance
         /\ trackingData.maxSpeed = fresh.maxSpeed
         /\ (IF trackingData.minSpeed = Infinity THEN 0 ELSE trackingData.minSpeed)
              = fresh.minSpeed
         /\ trackingData.avgSpeed = fresh.averageSpeed
         /\ trackingData.duration
              = Since(ret.start, ret.snapshot[Len(ret.snapshot)].timestamp)
    /\ storage.current_tracking_id = ret.id
    /\ sessions = ret.pre

\* C7: while a session is Active the cached route snapshot is a prefix of the
\* in-memory route and lacks at most CheckpointEvery - 1 of its samples.
C7_SnapshotIsRecentPrefix ==
  trackingData.isTracking =>
    /\ IsPrefix(storage.location_history, trackingData.locationHistory)
    /\ Len(trackingData.locationHistory) - Len(storage.location_history)
         <= CheckpointEvery - 1

\* C8: a start from Idle that fails leaves the controller Idle: not tracking,
\* no live subscription or running task, no pending record and no
\* crash-recovery marker.
C8_FailedStartLeavesIdle ==
  (ret.op = "start" /\ ~ret.ok /\ ~ret.busy) =>
    IF ctl = "service"
    THEN /\ ~trackingData.isTracking
         /\ ~taskRunning
         /\ storage.current_tracking_id = NoId /\ storage.tracking_start_time = NoTime
    ELSE /\ ~isTracking
         /\ ~locationSubscription /\ leaked = 0
         /\ activityDocRef = NoId
         /\ NonTerminal(rides) = {}

\* C9: a stop that fails at a persistence step (the record's write or the
\* aggregate transaction) leaves the session as it was, Active or Paused with
\* its route and stats, so that the next stop is accepted.
C9_FailedStopKeepsSession ==
  (/\ ret.op = "stop" /\ ~ret.ok /\ ret.at \in {"save", "txn"}
   /\ (IF ctl = "service" THEN ret.session ELSE ret.doc # NoId)) =>
    IF ctl = "service"
    THEN trackingData.isTracking
    ELSE /\ isTracking = ret.active
         /\ activityDocRef = ret.doc
         /\ route = ret.route
         /\ [stats EXCEPT !.endTime = NoTime] = [ret.stats EXCEPT !.endTime = NoTime]

\* C10: a fix that was in flight when the task was stopped changes neither
\* the route nor the stats while the controller is not tracking, nor those of
\* a session started afterwards.
C10_StaleFixIsDropped ==
  [][(/\ inflight # <<>>
      /\ inflight' = Tail(inflight)
      /\ Head(inflight).stale /\ Head(inflight).sid # NoId
      /\ (~trackingData.isTracking \/ Head(inflight).sid # nextId))
     => trackingData' = trackingData]_vars

\* the subscriptions that are open: the one the handle refers to, and those
\* no handle refers to any more
LiveSubscriptions == (IF locationSubscription THEN 1 ELSE 0) + leaked

\* C11: while the controller holds a session, at most one location
\* subscription is live and none is live without a handle to cancel it by,
\* whatever the interleaving of overlapping start and resume calls.
C11_AtMostOneSubscription ==
  activityDocRef # NoId => (LiveSubscriptions <= 1 /\ leaked = 0)

\* C12: every step of a resume of a Paused session leaves the route, the
\* stats, the start time and the session id as they are, and a resume that
\* succeeds leaves the controller Active with its subscription open; while the
\* session is Paused a delivered fix changes nothing; a resume called while
\* Active and a pause called while not Active are rejected and change nothing.
C12_ResumeRestoresPause ==
  [][\A c \in DOMAIN ops :
       /\ ((ops[c].kind = "resume" /\ ops[c].session /\ ops'[c] # ops[c])
            \/ (Idle(c) /\ ops'[c].kind = "resume" /\ ops'[c].session)) =>
             /\ [trackingData' EXCEPT !.isTracking = TRUE]
                  = [trackingData EXCEPT !.isTracking = TRUE]
             /\ storage' = storage /\ sessions' = sessions
             /\ route' = route /\ stats' = stats
             /\ startTimeRef' = startTimeRef /\ activityDocRef' = activityDocRef
             /\ lastLocationRef' = lastLocationRef
             /\ (ops[c].kind = "resume" /\ ret'.op = "resume" /\ ret'.ok) =>
                  IF ctl = "service"
                  THEN trackingData'.isTracking /\ taskRunning'
                  ELSE isTracking' /\ locationSubscription' /\ leaked' = 0
       /\ (ctl = "service" /\ SvcPaused /\ Idle(c) /\ inflight # <<>>
           /\ inflight' = Tail(inflight)) =>
             trackingData' = trackingData /\ storage' = storage
       /\ (/\ Idle(c) /\ ops' = ops
           /\ \/ ret'.op = "resume" /\ (IF ctl = "service" THEN SvcActive ELSE ProvActive)
              \/ ret'.op = "pause" /\ ~(IF ctl = "service" THEN SvcActive ELSE ProvActive)) =>
             /\ ~ret'.ok
             /\ UNCHANGED <<users, trackingData, storage, sessions, taskRunning, inflight>>
             /\ UNCHANGED provVars]_vars

\* C12's case: a session with two samples or more was paused and has just
\* been resumed.
C12_Witness ==
  /\ ret.op = "resume" /\ ret.ok /\ ret.session
  /\ IF ctl = "service"
     THEN trackingData.isTracking /\ taskRunning /\ Len(trackingData.locationHistory) >= 2
     ELSE isTracking /\ locationSubscription /\ Len(route) >= 2

\* C13: a stop called while the controller is Idle (no session started) is
\* rejected: it returns a failure, not a ride result, and changes neither the
\* controller's state, nor the persisted records, nor the user's aggregate.
C13_StopWhileIdleIsRejected ==
  [][\A c \in DOMAIN ops :
       (/\ Idle(c)
        /\ ops'[c].kind = "stop" \/ (ret'.op = "stop" /\ ops' = ops)
        /\ IF ctl = "service"
           THEN trackingData = InitialTrackingData /\ storage = EmptyStorage
           ELSE ~isTracking /\ activityDocRef = NoId /\ ~locationSubscription)
       => /\ ret'.op = "stop" /\ ~ret'.ok
          /\ UNCHANGED <<users, trackingData, storage, sessions, taskRunning>>
          /\ UNCHANGED <<isTracking, route, stats, activityDocRef, startTimeRef,
                         lastLocationRef, rides>>]_vars

\* what a segment of length d adds to the total distance
Accepted(d) == IF d > JumpLimit THEN 0 ELSE d

\* C14: when a sample is delivered to a session and added to its route, the
\* segment from the previous sample adds nothing to the total distance if it
\* is longer than 0.1 km and its full length if it is at most 0.1 km, and the
\* route keeps every sample it had, those of a rejected segment included.
C14_JumpRejection ==
  [][/\ (/\ ctl = "provider" /\ isTracking /\ activityDocRef # NoId
         /\ route # <<>> /\ Len(route') = Len(route) + 1) =>
          LET a == route[Len(route)]
              b == route'[Len(route')]
          IN /\ SubSeq(route', 1, Len(route)) = route
             /\ stats'.distance = stats.distance
                  + Accepted(Haversine(a.latitude, a.longitude, b.latitude, b.longitude))
     /\ (/\ ctl = "service" /\ SvcSession /\ trackingData.locationHistory # <<>>
         /\ inflight # <<>> /\ inflight' = Tail(inflight)
         /\ Len(trackingData'.locationHistory) = Len(trackingData.locationHistory) + 1) =>
          LET h == trackingData.locationHistory
              a == h[Len(h)]
              b == trackingData'.locationHistory[Len(h) + 1]
          IN /\ SubSeq(trackingData'.locationHistory, 1, Len(h)) = h
             /\ trackingData'.distance = trackingData.distance
                  + Accepted(Haversine(a.latitude, a.longitude, b.latitude, b.longitude))
    ]_vars

\* C15: whenever a controller is tracking a session, the distance and the
\* maximum, minimum and average speed it holds after folding in the samples of
\* the route one by one are those the batch engine computes over that route
\* (the provider keeps no minimum).
C15_LiveAgreesWithBatch ==
  /\ (ctl = "service" /\ trackingData.isTracking /\ storage.current_tracking_id # NoId
      /\ Len(trackingData.locationHistory) >= 2) =>
       LET batch == processRouteData(trackingData.locationHistory)
       IN /\ trackingData.distance = batch.distance
          /\ trackingData.maxSpeed = batch.maxSpeed
          /\ getCurrentStats.minSpeed = batch.minSpeed
          /\ trackingData.avgSpeed = batch.averageSpeed
  /\ (ctl = "provider" /\ isTracking /\ activityDocRef # NoId /\ Len(route) >= 2) =>
       LET batch == processRouteData(route)
       IN /\ stats.distance = batch.distance
          /\ stats.maxSpeed = batch.maxSpeed
          /\ stats.averageSpeed = batch.averageSpeed

RECURSIVE SumOfSpeeds(_, _)
SumOfSpeeds(routeData, i) ==
  IF i > Len(routeData) THEN 0
  ELSE formatSpeed(routeData[i].speed) + SumOfSpeeds(routeData, i + 1)

\* C17: once the engine has processed a route of two or more samples, every
\* sample with a positive reported speed, the first one and those ending a
\* rejected segment included, has been counted: the maximum and the minimum are
\* those of all positive speeds, and the average is their sum over their
\* number, or 0 when there is none.
C17_EverySpeedCounts ==
  (~effectPending /\ Len(hookRoute) >= 2) =>
    LET speeds == {formatSpeed(hookRoute[j].speed) :
                     j \in {k \in 1..Len(hookRoute) : hookRoute[k].speed > 0}}
        count == Cardinality({j \in 1..Len(hookRoute) : hookRoute[j].speed > 0})
    IN /\ \A v \in speeds : hookStats.minSpeed <= v /\ v <= hookStats.maxSpeed
       /\ speeds # {} => hookStats.maxSpeed \in speeds /\ hookStats.minSpeed \in speeds
       /\ hookStats.averageSpeed
            = IF count > 0 THEN SumOfSpeeds(hookRoute, 1) \div count ELSE 0
       /\ Len(hookStats.speedData) = count

\* C18: the "no minimum yet" sentinel is never exposed: in every state the
\* minimum speed of the hook's stats, of getCurrentStats and of every persisted
\* session record is a speed, 0 when no positive speed was observed.
C18_SentinelNeverExposed ==
  /\ hookStats.minSpeed # Infinity
  /\ getCurrentStats # NoStats => getCurrentStats.minSpeed # Infinity
  /\ \A d \in sessions : d.minSpeed # Infinity

\* C19: once the engine has processed a route of no sample or of one sample,
\* every aggregate it holds is zero and every time series is empty.
C19_ShortRouteIsAllZero ==
  (~effectPending /\ Len(hookRoute) < 2) =>
    /\ hookStats.distance = 0 /\ hookStats.averageSpeed = 0
    /\ hookStats.maxSpeed = 0 /\ hookStats.minSpeed = 0
    /\ hookStats.elevationGain = 0 /\ hookStats.caloriesBurned = 0
    /\ hookStats.speedData = <<>> /\ hookStats.altitudeData = <<>>
    /\ hookStats.pacesData = <<>>

\* C19's case: the engine has processed a single sample that reports a speed
\* and an altitude, with an hour as the duration.
C19_Witness ==
  /\ ~effectPending /\ Len(hookRoute) = 1
  /\ hookRoute[1].speed > 0 /\ hookRoute[1].altitude > 0
  /\ hookDuration = 3600
  /\ hookStats.minSpeed = 0

\* C20: an average speed of exactly 16, 20 and 25 km/h selects MET 6.8, 8.0
\* and 10.0, any average below 16 km/h selects 4.0, and the calories are
\* round(MET x 3.5 x weight x hours / 200 x 100), the weight being 70 kg when
\* the profile has none.
C20_MetBoundaries ==
  (calories # NoCall /\ calories.averageSpeedKmh <= 250
   /\ (calories.averageSpeedKmh >= 160 => calories.averageSpeedKmh \in {160, 200, 250})) =>
    LET met == CASE calories.averageSpeedKmh = 160 -> 68
                 [] calories.averageSpeedKmh = 200 -> 80
                 [] calories.averageSpeedKmh = 250 -> 100
                 [] OTHER -> 40
        kg == IF calories.weight = NoWeight THEN 70 ELSE calories.weight
    IN calories.out = (2 * (met * 7 * kg * calories.durationSec) + 144000) \div 288000

\* C20's case: exactly 16 km/h for an hour with no weight in the profile:
\* 6.8 x 3.5 x 70 x 1 / 200 x 100 = 833.
C20_Witness ==
  /\ calories # NoCall
  /\ calories.averageSpeedKmh = 160 /\ calories.durationSec = 3600
  /\ calories.weight = NoWeight
  /\ calories.out = 833

\* C21: a deletion asked for by a user who does not own the session is blocked:
\* the step that finds the document returns a failure, reported as not
\* authorized, and neither the session record nor any account's totals change.
C21_ForeignDeleteIsBlocked ==
  [][\A c \in DOMAIN ops :
       (/\ ops[c].kind = "delete" /\ ops'[c] # ops[c]
        /\ \E d \in sessions : d.id = ops[c].id /\ d.userId # ops[c].user)
       => /\ ops'[c] = NoOp
          /\ ret'.op = "delete" /\ ~ret'.ok
          /\ ret'.error \in {"Not authorized to delete this session", "thrown"}
          /\ sessions' = sessions
          /\ users' = users /\ otherAccount' = otherAccount]_vars

\* the other account has asked for the deletion of the user's saved ride, and
\* has been told it is not authorized
C21_Witness ==
  /\ ret.op = "delete" /\ ~ret.ok
  /\ ret.error = "Not authorized to delete this session"
  /\ ret.user = OtherUser
  /\ \E d \in sessions : d.id = ret.id /\ d.userId = User /\ d.distance > 0
  /\ users.rides > 0

\* C22: the totals of every account are never negative, whatever completions
\* and deletions have happened; a deletion of a session whose totals exceed
\* the account's leaves that total at 0.
C22_TotalsNeverNegative ==
  /\ \A u \in {User, OtherUser} :
       Account(u).rides >= 0 /\ Account(u).totalDistance >= 0 /\ Account(u).totalTime >= 0
  /\ (ret.op = "delete" /\ ret.ok) =>
       /\ (ret.doc.distance > ret.pre.totalDistance => Account(ret.user).totalDistance = 0)
       /\ (ret.doc.duration > ret.pre.totalTime => Account(ret.user).totalTime = 0)
       /\ (ret.pre.rides = 0 => Account(ret.user).rides = 0)

\* C24: every statistic a controller or the engine holds is non-negative in
\* every state: distance, current, maximum, minimum and average speed,
\* elevation gain and duration, also after a sample whose timestamp is not
\* later than the recorded start time.
C24_StatsNeverNegative ==
  /\ trackingData.distance >= 0 /\ trackingData.currentSpeed >= 0
  /\ trackingData.maxSpeed >= 0 /\ trackingData.minSpeed >= 0
  /\ trackingData.avgSpeed >= 0 /\ trackingData.duration >= 0
  /\ stats.distance >= 0 /\ stats.currentSpeed >= 0 /\ stats.maxSpeed >= 0
  /\ stats.averageSpeed >= 0 /\ stats.duration >= 0

\* C23: whenever a session is under way and its route is not empty, the first
\* element of the route is the sample startTracking fetched; pause, resume and
\* the recovery after a crash leave it so.
C23_RouteStartsAtStartingPoint ==
  /\ (/\ ctl = "service" /\ SvcSession
      /\ \A c \in DOMAIN ops : ops[c].kind = "start" => ops[c].pc \in {"putId", "putStart"}
      /\ trackingData.locationHistory # <<>>)
     => trackingData.locationHistory[1] = startPoint
  /\ (/\ ctl = "provider" /\ activityDocRef # NoId
      /\ \A c \in DOMAIN ops : ops[c].kind # "start"
      /\ route # <<>>)
     => route[1] = startPoint

\* C25: the distance calculators are symmetric, give 0 for two identical
\* points, and give 0 whenever one of the four coordinates is missing or zero.
C25_DistanceIsSymmetric ==
  distanceCall # NoFix =>
    /\ distanceCall.hook = distanceCall.hookBack
    /\ distanceCall.provider = distanceCall.providerBack
    /\ (distanceCall.lat1 = distanceCall.lat2 /\ distanceCall.lon1 = distanceCall.lon2)
         => (distanceCall.hook = 0 /\ distanceCall.provider = 0)
    /\ (0 \in {distanceCall.lat1, distanceCall.lon1, distanceCall.lat2, distanceCall.lon2})
         => (distanceCall.hook = 0 /\ distanceCall.provider = 0)

\* the distance of two distinct points, asked for with miles as the unit, right
\* after one with a zero coordinate would have been
C25_Witness ==
  /\ distanceCall # NoFix /\ distanceCall.unit = "mi"
  /\ distanceCall.lat1 = 3 /\ distanceCall.lon1 = 1
  /\ distanceCall.lat2 = 1 /\ distanceCall.lon2 = 2
  /\ distanceCall.hook > 0 /\ distanceCall.provider > 0

RECURSIVE PositiveDeltas(_, _)
\* the sum of max(0, altitude[i] - altitude[i-1]) over the pairs up to point k
PositiveDeltas(routeData, k) ==
  IF k < 2 THEN 0
  ELSE PositiveDeltas(routeData, k - 1)
       + Max(0, routeData[k].altitude - routeData[k - 1].altitude)

\* C26: the elevation gain the engine reports is the sum of the positive
\* altitude changes over all consecutive pairs of the route, a missing altitude
\* counting as 0; descents do not reduce it and rejected segments are included.
C26_ElevationGainIsSumOfClimbs ==
  (~effectPending /\ Len(hookRoute) >= 2) =>
    hookStats.elevationGain = PositiveDeltas(hookRoute, Len(hookRoute))

\* a climb over a rejected segment, followed by a descent
C26_Witness ==
  /\ ~effectPending /\ preferredUnit = "km" /\ Len(hookRoute) = 3
  /\ hookRoute[1].latitude = 1 /\ hookRoute[2].latitude = 4
  /\ hookRoute[1].altitude = 0 /\ hookRoute[2].altitude = 1 /\ hookRoute[3].altitude = 0
  /\ hookStats.elevationGain = 1

C30_JumpRejectionIgnoresUnit ==
  (~effectPending /\ preferredUnit = "mi" /\ Len(hookRoute) >= 2) =>
    LET inMiles == ProcessLoop("mi", hookRoute, 2, LoopStart)
        inKm == ProcessLoop("km", hookRoute, 2, LoopStart)
    IN /\ inMiles.skipped = inKm.skipped
       /\ inMiles.totalDistance * DistScale = inKm.totalDistance * MilePerMille

C29_StopPersistsEverySample ==
  /\ (ctl = "provider" /\ ret.op = "stop" /\ ret.ok /\ ret.doc # NoId) =>
       \E d \in rides :
         /\ d.id = ret.doc /\ d.status = "completed"
         /\ d.route = route /\ ret.route = route
         /\ d.distance = stats.distance /\ d.duration = stats.duration
         /\ d.maxSpeed = stats.maxSpeed /\ d.averageSpeed = stats.averageSpeed
  /\ (ctl = "service" /\ ret.op = "stop" /\ ret.ok) =>
       \E d \in sessions :
         /\ d.id = ret.id /\ d.status = "completed"
         /\ d.locationHistory = trackingData.locationHistory
         /\ d.distance = trackingData.distance /\ d.duration = trackingData.duration
         /\ d.maxSpeed = trackingData.maxSpeed

\* C31: for the same route, duration and weight the engine reports the same
\* calories with miles as the preferred unit as with kilometres (the MET
\* bracket is taken from the average speed in km/h); stated for routes on
\* which neither unit rejects a segment.
C31_CaloriesIgnoreUnit ==
  (/\ ~effectPending /\ preferredUnit = "mi" /\ Len(hookRoute) >= 2
   /\ ProcessLoop("mi", hookRoute, 2, LoopStart).skipped = {}
   /\ ProcessLoop("km", hookRoute, 2, LoopStart).skipped = {}) =>
    hookStats.caloriesBurned = ProcessRoute("km", hookRoute).caloriesBurned

\* the completed session records stored for an account
CompletedOf(u) == {d \in sessions : d.status = "completed" /\ d.userId = u}

\* C32: whenever no operation is in progress, the rides of an account's
\* aggregate equal the number of completed session records stored for that
\* account, whatever stops (failed ones included) and deletions came before.
C32_RidesCountCompletedRecords ==
  (\A c \in DOMAIN ops : Idle(c)) =>
    \A u \in {User, OtherUser} : Account(u).rides = Cardinality(CompletedOf(u))

\* C33: a session that has reached a terminal outcome is never offered for
\* recovery: when stop has returned success the cached session id, start time
\* and route snapshot are cleared, and whenever checkForInterruptedTracking
\* reports an interrupted session, no completed record of that id is stored.
C33_TerminalSessionNotRecovered ==
  /\ (ctl = "service" /\ ret.op = "stop" /\ ret.ok) =>
       /\ storage.current_tracking_id = NoId
       /\ storage.tracking_start_time = NoTime
       /\ storage.location_history = <<>> /\ ~storage.has_history
  /\ (ctl = "service" /\ ret.op = "check" /\ ret.interrupted) =>
       ~\E d \in sessions : d.id = ret.trackingId /\ d.status = "completed"

\* C34: the cached route snapshot belongs to the session named by the cached
\* session id: the step of a start that caches a new session id leaves in the
\* cache no snapshot other than samples of the new session's own route (an
\* earlier session's snapshot is not left in place under the new id).
C34_SnapshotBelongsToCachedSession ==
  [][(/\ ctl = "service"
      /\ storage'.current_tracking_id # NoId
      /\ storage'.current_tracking_id # storage.current_tracking_id)
     => IsPrefix(storage'.location_history, trackingData'.locationHistory)]_vars

\* C35: whenever no operation is in progress, a controller that is tracking
\* has a recorded start time and a session id (service: the cached id;
\* provider: the pending ride document); in particular a resume invoked while
\* Idle does not make the controller Active.
C35_TrackingOnlyForStartedSession ==
  (\A c \in DOMAIN ops : Idle(c)) =>
    /\ (ctl = "service" /\ trackingData.isTracking) =>
         /\ trackingData.startTime # NoTime
         /\ storage.current_tracking_id # NoId
    /\ (ctl = "provider" /\ isTracking) =>
         /\ startTimeRef # NoTime
         /\ activityDocRef # NoId

\* C36: whenever no lifecycle operation is in progress, a location
\* subscription (the service's location task) is live if and only if the
\* controller is tracking, also after an operation that returned an error.
C36_SubscriptionIffTracking ==
  (\A c \in DOMAIN ops : Idle(c)) =>
    /\ ctl = "service" => (taskRunning <=> trackingData.isTracking)
    /\ ctl = "provider" => (LiveSubscriptions > 0 <=> isTracking)

\* C37: a stop invoked while the session is Paused is carried out without a
\* resume first: it is not turned away as "no active session", and when its
\* writes succeed the record is completed with the route and stats held at
\* the pause, the aggregate is credited once and the controller is Idle.
C37_PausedSessionCanBeStopped ==
  /\ ctl = "service" =>
       ~(/\ ret.op = "stop" /\ ~ret.ok /\ ret.at = "guard"
         /\ ret.session /\ SvcPaused)
  /\ (ctl = "provider" /\ ret.op = "stop" /\ ret.ok
      /\ ret.busy /\ ~ret.active /\ ret.doc # NoId) =>
       /\ \E d \in rides : /\ d.id = ret.doc /\ d.status = "completed"
                           /\ d.route = ret.route /\ d.distance = ret.stats.distance
       /\ ~isTracking /\ activityDocRef = NoId
       /\ users.rides = ret.pre.rides + 1

\* the session ids handed out so far of which no completed record is stored
NotStored == {i \in 1..nextId : ~\E d \in CompletedOf(User) : d.id = i}

\* C38: a stored session is taken off its owner's aggregate at most once,
\* however often and in whatever interleaving its deletion is asked for: the
\* rides of the aggregate are never fewer than the rides credited by stops
\* less one for each session that is no longer stored.
C38_DeleteDecrementsOnce ==
  users.rides >= credited.rides - Cardinality(NotStored)

\* C39: in the useLocation hook, once tracking has been disabled, stopTracking
\* called or the component unmounted, and none of the hook's asynchronous
\* calls is pending any more, no subscription the hook created is live.
C39_NoSubscriptionSurvivesStop ==
  (ctl = "location" /\ ~useLocation.wanted /\ useLocation.pending = <<>>) =>
    useLocation.live = {}

====
